---- MODULE Spec2Model ----
(***************************************************************************)
(* SVG-diagram-to-pixel-position extraction of                             *)
(* server/repo_to_png/mermaid_to_png.py (svg_to_component_positions and    *)
(* its helpers).                                                           *)
(*                                                                         *)
(* Representation.                                                         *)
(*  - A string that the code inspects character by character (id, text)    *)
(*    is a sequence of one-character strings; the empty sequence is both   *)
(*    None and "" (the code only tests such values for truthiness).        *)
(*  - A string that the code hands to float() or to a number regex is a    *)
(*    token: Num(n) (a number), Dots (matches [-\d.]+ but float() raises,  *)
(*    such as "1.2.3" or "-"), Exp(n) (a number float() accepts that the   *)
(*    class does not match, such as "1e0" or "+1"), Junk (neither),        *)
(*    Empty ("") or AbsentTok.                                             *)
(*  - Numbers are integers; a bounding-box centre x + w/2 is kept doubled  *)
(*    (2x + w) so that halves are exact, and the mapping to pixels is      *)
(*    computed as the exact quotient truncated towards zero, as int() of   *)
(*    the float expression does.                                           *)
(*  - An optional result is [k |-> "none"], [k |-> "ok", v |-> value] or   *)
(*    [k |-> "raise", e |-> exception name].                               *)
(***************************************************************************)
EXTENDS Integers, Sequences, FiniteSets, TLC

VARIABLES
    svg_input,    \* the parsed document handed to svg_to_component_positions
    png_width,    \* target width W
    png_height,   \* target height H
    pc,           \* "ready" | "returned" | "raised"
    result,       \* the list the last call returned (<<>> when it raised)
    exc,          \* exception the last call raised, "none" otherwise
    trace,        \* history: for each record of result, the group that produced it
    first,        \* history: input and outcome of the first call of the behaviour
    interleaved,  \* history: a call on another input has completed since the first
    \* server/main.py: the agent id counter
    agent_id_counter,  \* _agent_id_counter
    agent_id_lock,     \* _agent_id_lock: 0 when free, else the thread holding it
    id_pc,             \* per thread: its position in _next_agent_id
    id_read,           \* per thread: the counter value it read
    id_returned,       \* history: the returned ids, in order
    \* server/event_bus.py
    clients,           \* _clients: the registered websockets
    ws_state,          \* per websocket: "new" | "open" | "dead" | "closed"
    bc_pc,             \* broadcast: "idle" | "sending" | "returned" | "raised"
    bc_clients,        \* broadcast: its local list clients = list(_clients)
    bc_i,              \* broadcast: index of the next element of bc_clients
    bc_sent,           \* history: websockets whose send_text succeeded
    bc_failed,         \* history: websockets whose send_text raised
    bc_at_start,       \* history: _clients when the call started
    bc_unregistered,   \* history: websockets unregistered since the last call started
    bc_count,          \* history: broadcasts started
    \* poke-mcp/server.py run_modal_agent, mcp_server/agent_runner.py run_fix_sync
    runner,            \* which of the two functions the current call is
    smoke_test,        \* run_modal_agent's smoke_test argument
    run_pc,            \* position of the call: "idle", a step, "finally", "done"
    sandbox,           \* sb: "none" | "running" | "terminated"
    run_pending,       \* the return value or exception on its way through finally
    run_result,        \* what the call returned or raised
    run_log,           \* history: the steps of the call with their outcomes
    run_count,         \* history: calls started
    \* server/voice.py
    record_bin,        \* RECORD_BIN is set (a recorder is installed)
    inbound_queue,     \* _inbound_queue: messages waiting to be spoken
    inbound_waiters,   \* _inbound_waiters: the tasks waiting in _wait_for_inbound
    inbound_count,     \* history: inbound messages seen by the poller
    tts_loop_busy,     \* _tts_loop_busy
    is_busy,           \* _is_busy
    task_pc,           \* per task: its position in run_record_turn_once / stop_and_process
    task_result,       \* per task: what its last call returned or raised
    recording_process, \* _recording_process: 0 for None, else the process
    recording_audio_path,  \* _recording_audio_path: 0 for None, else the path
    live_recorders,    \* the recorder processes of start_recording that are running
    proc_count,        \* history: recorder processes started by start_recording
    hand_count,        \* history: hand_open / hand_close messages handled
    last_hand,         \* history: the last of these messages
    \* server/repo_to_png/mermaid_to_png.py _sanitize_mermaid_node_labels
    mermaid_code,      \* the argument: a sequence of characters
    sanitized,         \* the function's result on mermaid_code
    resanitized,       \* the function's result on its own result
    sanitize_pass,     \* how many times the function has been applied
    \* server/voice.py _enqueue_inbound on the poller thread, _wait_for_inbound
    wait_pc,           \* per call of _wait_for_inbound: its position
    wait_got,          \* per call: the message it returned, 0 for none
    fut_result,        \* per call: the result set on its future, 0 while pending
    scheduled,         \* the set_result callbacks handed to call_soon_threadsafe
    enq_msg,           \* the message _enqueue_inbound is about to hand over, else 0
    tts_popped,        \* history: the messages a consumer popped from the queue
    \* server/main.py: internal_event, the status loop, the websocket handlers
    agent_state_store, \* _agent_state_store: key -> body
    posted,            \* history: the bodies posted to /internal/event, in order
    ws_spawn_connections,  \* _ws_spawn_connections
    ws_poke_connections,   \* _ws_poke_connections
    conn_kind,         \* per websocket: "spawn" or "poke"
    conn_pc,           \* per websocket: the position of its handler
    conn_snap,         \* per websocket: the snapshot items from the one being sent
    received,          \* history: per websocket, the bodies it was sent
    post_pc,           \* per request to /internal/event: its position
    post_body,         \* per request: its body
    post_list,         \* per request: the copy of the registry its broadcast took
    post_i,            \* per request: the index in post_list of the send in progress
    st_pc,             \* the status loop: "sleeping" or "sending"
    st_items,          \* the status loop: its copy of the items from the one being sent
    st_list,           \* the status loop: the clients from the one being sent to
    st_ticks           \* history: rounds of the status loop

svg_vars == <<svg_input, png_width, png_height, pc, result, exc, trace, first,
              interleaved>>
id_vars == <<agent_id_counter, agent_id_lock, id_pc, id_read, id_returned>>

bus_vars == <<clients, ws_state, bc_pc, bc_clients, bc_i, bc_sent, bc_failed,
              bc_at_start, bc_unregistered, bc_count>>

run_vars == <<runner, smoke_test, run_pc, sandbox, run_pending, run_result,
              run_log, run_count>>

voice_vars == <<record_bin, inbound_queue, inbound_waiters, inbound_count,
                tts_loop_busy, is_busy, task_pc, task_result, recording_process,
                recording_audio_path, live_recorders, proc_count, hand_count,
                last_hand>>

label_vars == <<mermaid_code, sanitized, resanitized, sanitize_pass>>

wait_vars == <<wait_pc, wait_got, fut_result, scheduled, enq_msg, tts_popped>>

srv_vars ==
    <<agent_state_store, posted, ws_spawn_connections, ws_poke_connections,
      conn_kind, conn_pc, conn_snap, received, post_pc, post_body, post_list,
      post_i, st_pc, st_items, st_list, st_ticks>>

vars ==
    <<svg_vars, id_vars, bus_vars, run_vars, voice_vars, label_vars, wait_vars,
      srv_vars>>

\* what each part of the program never touches
outside_svg ==
    <<id_vars, bus_vars, run_vars, voice_vars, label_vars, wait_vars,
      srv_vars>>
outside_id ==
    <<svg_vars, bus_vars, run_vars, voice_vars, label_vars, wait_vars,
      srv_vars>>
outside_bus ==
    <<svg_vars, id_vars, run_vars, voice_vars, label_vars, wait_vars,
      srv_vars>>
outside_run ==
    <<svg_vars, id_vars, bus_vars, voice_vars, label_vars, wait_vars,
      srv_vars>>
outside_voice ==
    <<svg_vars, id_vars, bus_vars, run_vars, label_vars, wait_vars,
      srv_vars>>
outside_label ==
    <<svg_vars, id_vars, bus_vars, run_vars, voice_vars, wait_vars,
      srv_vars>>
outside_wait ==
    <<svg_vars, id_vars, bus_vars, run_vars, voice_vars, label_vars,
      srv_vars>>

(***************************************************************************)
(* Bounds                                                                  *)
(***************************************************************************)
MaxDim == 3       \* target sizes W, H range over 1..MaxDim
MaxCoord == 2     \* shape coordinates and sizes range over 0..MaxCoord
MaxCalls == 12    \* calls of _next_agent_id in a behaviour
NumThreads == 2   \* threads calling _next_agent_id
NumClients == 3   \* websockets that connect in a behaviour
MaxBroadcasts == 2  \* calls of broadcast in a behaviour
MaxRuns == 2      \* calls of run_modal_agent / run_fix_sync in a behaviour
NumTurns == 2     \* calls of run_record_turn_once (POST /record-once)
NumHandlers == 2  \* /ws/poke connections sending hand_open / hand_close
MaxMessages == 4  \* hand_open / hand_close messages in a behaviour
MaxInbound == 1   \* inbound messages the poller finds in a behaviour
MaxLen == 5       \* characters of the Mermaid code given to the sanitiser
MaxNest == 2      \* groups wrapped around a shape inside a node group
NumWaiters == 2   \* calls of _wait_for_inbound in a behaviour
MaxEnqueued == 2  \* messages the poller hands to _enqueue_inbound
NumConns == 2     \* websocket connections to /ws/poke and /ws/spawn
MaxPosts == 2     \* requests to /internal/event in a behaviour
MaxTicks == 1     \* rounds of the status loop in a behaviour

(***************************************************************************)
(* Optional values and tokens                                              *)
(***************************************************************************)
None == [k |-> "none"]
Ok(v) == [k |-> "ok", v |-> v]
Raise(e) == [k |-> "raise", e |-> e]

Num(n) == [k |-> "num", v |-> n]
Dots == [k |-> "dots", v |-> 0]
Junk == [k |-> "junk", v |-> 0]
Empty == [k |-> "empty", v |-> 0]
AbsentTok == [k |-> "absent", v |-> 0]
Exp(n) == [k |-> "exp", v |-> n]

\* float(s) on a string token
Float(tok) ==
    IF tok.k \in {"num", "exp"} THEN Ok(tok.v) ELSE Raise("ValueError")

\* a token matched by the regex class [-\d.]+
MatchesNumber(tok) == tok.k \in {"num", "dots"}

Abs(n) == IF n < 0 THEN -n ELSE n

\* int(n / d): the quotient truncated towards zero (d # 0)
TruncDiv(n, d) ==
    IF (n >= 0) = (d > 0)
    THEN Abs(n) \div Abs(d)
    ELSE -(Abs(n) \div Abs(d))

Min(S) == CHOOSE m \in S : \A n \in S : m <= n
Max(S) == CHOOSE m \in S : \A n \in S : m >= n

(***************************************************************************)
(* Strings as character sequences                                          *)
(***************************************************************************)
Whitespace == {" ", "\n"}
Digits == {"0", "1", "2", "3", "4", "5", "6", "7", "8", "9"}

RECURSIVE LStrip(_)
LStrip(s) ==
    IF s # <<>> /\ Head(s) \in Whitespace THEN LStrip(Tail(s)) ELSE s

RECURSIVE RStrip(_)
RStrip(s) ==
    IF s # <<>> /\ s[Len(s)] \in Whitespace
    THEN RStrip(SubSeq(s, 1, Len(s) - 1))
    ELSE s

\* str.strip()
Strip(s) == RStrip(LStrip(s))

\* str.isdigit()
IsDigit(s) == s # <<>> /\ \A i \in 1..Len(s) : s[i] \in Digits

\* "-" in s
HasDash(s) == \E i \in 1..Len(s) : s[i] = "-"

\* s.split("-")
RECURSIVE SplitDash(_)
SplitDash(s) ==
    IF ~HasDash(s) THEN <<s>>
    ELSE LET i == CHOOSE j \in 1..Len(s) :
                      s[j] = "-" /\ \A m \in 1..(j - 1) : s[m] # "-"
         IN  <<SubSeq(s, 1, i - 1)>> \o SplitDash(SubSeq(s, i + 1, Len(s)))

\* str(n) for n >= 0
DigitChar(d) ==
    CASE d = 0 -> "0" [] d = 1 -> "1" [] d = 2 -> "2" [] d = 3 -> "3"
      [] d = 4 -> "4" [] d = 5 -> "5" [] d = 6 -> "6" [] d = 7 -> "7"
      [] d = 8 -> "8" [] OTHER -> "9"

RECURSIVE Decimal(_)
Decimal(n) ==
    IF n < 10 THEN <<DigitChar(n)>>
    ELSE Decimal(n \div 10) \o <<DigitChar(n % 10)>>

(***************************************************************************)
(* Elements                                                                *)
(*   tag, ns     local name and namespace of the ElementTree tag "{ns}tag" *)
(*   class       the class attribute, already split on whitespace          *)
(*   id, text    character sequences                                       *)
(*   transform   the transform attribute as its list of functions          *)
(*               [fn, args]; <<>> is an absent, empty or blank attribute   *)
(*   x, y, width, height   tokens                                          *)
(*   points, d   [set, toks, move]: toks is what re.split(r"[\s,]+") makes *)
(*               of the stripped string, move what the M-regex finds       *)
(*   viewBox     [set, parts]: parts is what str.split() makes of it       *)
(*   kids        the child elements in document order                      *)
(***************************************************************************)
NoStr == [set |-> FALSE, toks |-> <<>>, move |-> None]
NoViewBox == [set |-> FALSE, parts |-> <<>>]

Blank ==
    [tag |-> "other", ns |-> "", class |-> <<>>, id |-> <<>>, text |-> <<>>,
     transform |-> <<>>, x |-> AbsentTok, y |-> AbsentTok,
     width |-> AbsentTok, height |-> AbsentTok,
     points |-> NoStr, d |-> NoStr, viewBox |-> NoViewBox, kids |-> <<>>]

\* _strip_ns: the tag without its "{namespace}" prefix
strip_ns(el) == el.tag

(***************************************************************************)
(* _parse_transform                                                        *)
(***************************************************************************)
TranslateMatches(f) ==
    /\ f.fn = "translate"
    /\ Len(f.args) \in {1, 2}
    /\ \A i \in 1..Len(f.args) : MatchesNumber(f.args[i])

MatrixMatches(f) ==
    /\ f.fn = "matrix"
    /\ Len(f.args) = 6
    /\ \A i \in 1..6 : MatchesNumber(f.args[i])

\* re.search: the leftmost match
FirstTranslate(t) ==
    CHOOSE i \in 1..Len(t) :
        TranslateMatches(t[i]) /\ \A j \in 1..(i - 1) : ~TranslateMatches(t[j])

FirstMatrix(t) ==
    CHOOSE i \in 1..Len(t) :
        MatrixMatches(t[i]) /\ \A j \in 1..(i - 1) : ~MatrixMatches(t[j])

\* (float(a), float(b)): the first conversion that fails raises
float_pair(a, b) ==
    IF a.k = "raise" THEN a
    ELSE IF b.k = "raise" THEN b
    ELSE Ok(<<a.v, b.v>>)

\* lines 124-127
translate_of(f) ==
    float_pair(Float(f.args[1]),
               IF Len(f.args) = 2 THEN Float(f.args[2]) ELSE Ok(0))

\* lines 133-135
matrix_of(m) == float_pair(Float(m.args[5]), Float(m.args[6]))

parse_transform(t) ==
    IF t = <<>> THEN Ok(<<0, 0>>)
    ELSE IF \E i \in 1..Len(t) : TranslateMatches(t[i])
    THEN translate_of(t[FirstTranslate(t)])
    ELSE IF \E i \in 1..Len(t) : MatrixMatches(t[i])
    THEN matrix_of(t[FirstMatrix(t)])
    ELSE Ok(<<0, 0>>)

(***************************************************************************)
(* Bounding boxes: <<x, y, w, h>>                                          *)
(***************************************************************************)
\* el.get(name, 0) followed by float(): an absent attribute is 0
FloatOrZero(tok) == IF tok.k = "absent" THEN Ok(0) ELSE Float(tok)

\* lines 143-150: a ValueError of any of the four conversions gives None
rect_of(x, y, w, h) ==
    IF \E r \in {x, y, w, h} : r.k = "raise"
    THEN None
    ELSE Ok(<<x.v, y.v, w.v, h.v>>)

get_rect_bbox(el) ==
    IF strip_ns(el) # "rect" THEN None
    ELSE rect_of(FloatOrZero(el.x), FloatOrZero(el.y),
                 FloatOrZero(el.width), FloatOrZero(el.height))

\* one more number in front of the converted rest
cons_float(n, rest) ==
    IF n.k = "raise" THEN n
    ELSE IF rest.k = "raise" THEN rest
    ELSE Ok(<<n.v>> \o rest.v)

\* [float(p) for p in parts if p]
RECURSIVE Floats(_)
Floats(parts) ==
    IF parts = <<>> THEN Ok(<<>>)
    ELSE IF Head(parts).k = "empty" THEN Floats(Tail(parts))
    ELSE cons_float(Float(Head(parts)), Floats(Tail(parts)))

\* lines 165-166
move_box(x, y) ==
    IF x.k = "raise" THEN x
    ELSE IF y.k = "raise" THEN y
    ELSE Ok(<<x.v, y.v, 1, 1>>)

\* line 177
box_of(xs, ys) ==
    Ok(<<Min(xs), Min(ys), Max(xs) - Min(xs), Max(ys) - Min(ys)>>)

\* lines 173-177: xs = nums[0::2], ys = nums[1::2]
nums_box(nums) ==
    IF Len(nums) < 4 THEN None
    ELSE box_of({ nums[i] : i \in { j \in 1..Len(nums) : j % 2 = 1 } },
                { nums[i] : i \in { j \in 1..Len(nums) : j % 2 = 0 } })

\* line 172: the conversion of the parts is not guarded
parts_box(nums) ==
    IF nums.k = "raise" THEN nums ELSE nums_box(nums.v)

\* lines 159-177
points_box(tag, points_str) ==
    IF ~points_str.set THEN None
    ELSE IF tag = "path"
    THEN IF points_str.move.k = "ok"
         THEN move_box(Float(points_str.move.v[1]), Float(points_str.move.v[2]))
         ELSE None
    ELSE IF Len(points_str.toks) < 4 THEN None
    ELSE parts_box(Floats(points_str.toks))

get_polygon_bbox(el) ==
    IF strip_ns(el) \notin {"polygon", "polyline", "path"} THEN None
    ELSE points_box(strip_ns(el), IF el.points.set THEN el.points ELSE el.d)

RECURSIVE group_bbox_from(_, _)

\* lines 188-190: the box of the nested group, else the next child
nested_or_next(g, i, bbox) ==
    IF bbox.k # "none" THEN bbox ELSE group_bbox_from(g, i + 1)

\* lines 184-190, bbox being _get_polygon_bbox(child)
polygon_or_nested(g, i, child, bbox) ==
    IF bbox.k # "none" THEN bbox
    ELSE IF strip_ns(child) = "g"
    THEN nested_or_next(g, i, group_bbox_from(child, 1))
    ELSE group_bbox_from(g, i + 1)

\* line 183: _get_rect_bbox(child) or _get_polygon_bbox(child)
rect_or_polygon(g, i, child, bbox) ==
    IF bbox.k = "ok" THEN bbox
    ELSE polygon_or_nested(g, i, child, get_polygon_bbox(child))

\* the loop of _get_group_bbox from child i on
group_bbox_from(g, i) ==
    IF i > Len(g.kids) THEN None
    ELSE rect_or_polygon(g, i, g.kids[i], get_rect_bbox(g.kids[i]))

get_group_bbox(g) == group_bbox_from(g, 1)

(***************************************************************************)
(* _get_text_content                                                       *)
(***************************************************************************)
RECURSIVE Iter(_)
RECURSIVE IterKids(_, _)
\* Element.iter(): the element and its descendants in document order
Iter(el) == <<el>> \o IterKids(el.kids, 1)

IterKids(kids, i) ==
    IF i > Len(kids) THEN <<>>
    ELSE Iter(kids[i]) \o IterKids(kids, i + 1)

RECURSIVE text_from(_, _)

\* lines 202-204: the first child with text
first_child_with_text(elem) ==
    CHOOSE n \in 1..Len(elem.kids) :
        /\ elem.kids[n].text # <<>>
        /\ \A m \in 1..(n - 1) : elem.kids[m].text = <<>>

\* lines 198-204, t being elem.text.strip()
text_or_tspan(elems, i, elem, t) ==
    IF t # <<>> THEN t
    ELSE IF \E j \in 1..Len(elem.kids) : elem.kids[j].text # <<>>
    THEN Strip(elem.kids[first_child_with_text(elem)].text)
    ELSE text_from(elems, i + 1)

\* lines 197-204 for one element of g.iter()
text_of(elems, i, elem) ==
    IF strip_ns(elem) = "text" /\ elem.text # <<>>
    THEN text_or_tspan(elems, i, elem, Strip(elem.text))
    ELSE text_from(elems, i + 1)

\* the loop of _get_text_content from the i-th element of g.iter() on
text_from(elems, i) ==
    IF i > Len(elems) THEN <<>> ELSE text_of(elems, i, elems[i])

get_text_content(g) == text_from(Iter(g), 1)

(***************************************************************************)
(* View box and the mapping to pixels                                      *)
(***************************************************************************)
\* lines 239-241
size_view(vb_w, vb_h) ==
    IF vb_w.k = "raise" THEN vb_w
    ELSE IF vb_h.k = "raise" THEN vb_h
    ELSE Ok(<<0, 0, vb_w.v, vb_h.v>>)

\* line 235
parts_view(parts) ==
    IF \E i \in 1..4 : Float(parts[i]).k = "raise"
    THEN Raise("ValueError")
    ELSE Ok(<<parts[1].v, parts[2].v, parts[3].v, parts[4].v>>)

\* lines 231-241: <<vb_x, vb_y, vb_w, vb_h>>
view_box_of(root, W, H) ==
    IF root.viewBox.set
    THEN IF Len(root.viewBox.parts) = 4
         THEN parts_view(root.viewBox.parts)
         ELSE Ok(<<0, 0, W, H>>)
    ELSE size_view(IF root.width.k = "absent" THEN Ok(W) ELSE Float(root.width),
                   IF root.height.k = "absent" THEN Ok(H) ELSE Float(root.height))

\* int(n / d * size), n / d being n2 / (2 d): Python's "/" raises on d = 0
IntScaled(n2, d, size) ==
    IF d = 0 THEN Raise("ZeroDivisionError")
    ELSE Ok(TruncDiv(n2 * size, 2 * d))

\* mutant of axis: the guard against a zero view size is missing
axis_unguarded(s2, vb_o, vb_s, size) == IntScaled(s2 - 2 * vb_o, vb_s, size)

\* one line of svg_to_png before the clamp: s2 is the doubled coordinate
axis(s2, vb_o, vb_s, size) ==
    IF vb_s # 0 THEN IntScaled(s2 - 2 * vb_o, vb_s, size) ELSE Ok(0)

PyMin(a, b) == IF a < b THEN a ELSE b
PyMax(a, b) == IF a > b THEN a ELSE b

\* mutant of clamp: the lower bound is forgotten
clamp_upper_only(p, size) == PyMin(p, size - 1)

\* max(0, min(p, size - 1))
clamp(p, size) == PyMax(0, PyMin(p, size - 1))

\* line 246
clamped(px, py, W, H) ==
    IF px.k = "raise" THEN px
    ELSE IF py.k = "raise" THEN py
    ELSE Ok(<<clamp(px.v, W), clamp(py.v, H)>>)

svg_to_png(sx2, sy2, vb, W, H) ==
    clamped(axis(sx2, vb[1], vb[3], W), axis(sy2, vb[2], vb[4], H), W, H)

(***************************************************************************)
(* walk                                                                    *)
(*   acc is the list being built, [k |-> "ok", out, src], or a raise;      *)
(*   src records for each record the path of its group and its doubled     *)
(*   document-root coordinate.                                             *)
(***************************************************************************)
NodePrefix == <<"n", "o", "d", "e", "_">>

\* mutant of id_from_parts: the numeric suffix is not stripped
id_last_token(parts_id) == parts_id[Len(parts_id)]

\* line 272
id_from_parts(parts_id) ==
    IF Len(parts_id) >= 2 /\ IsDigit(parts_id[Len(parts_id)])
    THEN parts_id[Len(parts_id) - 1]
    ELSE parts_id[Len(parts_id)]

\* lines 269-276
short_id_of(gid, label, index) ==
    IF gid # <<>> /\ HasDash(gid) THEN id_from_parts(SplitDash(gid))
    ELSE IF gid # <<>> THEN gid
    ELSE IF label # <<>> THEN label
    ELSE NodePrefix \o Decimal(index)

\* line 255-258
qualifies(el) ==
    \/ "node" \in { el.class[i] : i \in 1..Len(el.class) }
    \/ "cluster" \in { el.class[i] : i \in 1..Len(el.class) }
    \/ "clusterRow" \in { el.class[i] : i \in 1..Len(el.class) }

\* lines 277-280: label is the text or, without text, the id
component_position(short_id, label, p) ==
    [id |-> short_id, label |-> label,
     name |-> IF label # <<>> THEN label ELSE short_id,
     x |-> p[1], y |-> p[2]]

\* line 280
append_position(path, acc, sx2, sy2, p, text, short_id) ==
    [k |-> "ok",
     out |-> Append(acc.out,
                    component_position(short_id,
                                       IF text = <<>> THEN short_id ELSE text, p)),
     src |-> Append(acc.src, [path |-> path, sx2 |-> sx2, sy2 |-> sy2])]

\* lines 268-280, p being the pixel of the group
emit_pixel(el, path, acc, sx2, sy2, p, text, gid) ==
    IF p.k = "raise" THEN p
    ELSE append_position(path, acc, sx2, sy2, p.v, text,
                         short_id_of(gid, text, Len(acc.out)))

\* lines 267-269
emit_at(el, path, acc, vb, W, H, sx2, sy2) ==
    emit_pixel(el, path, acc, sx2, sy2, svg_to_png(sx2, sy2, vb, W, H),
               Strip(get_text_content(el)), Strip(el.id))

\* lines 260-266, bbox being _get_group_bbox(el)
emit_box(el, path, cum_tx, cum_ty, acc, vb, W, H, bbox) ==
    IF bbox.k = "raise" THEN bbox
    ELSE IF bbox.k = "none" THEN acc
    ELSE emit_at(el, path, acc, vb, W, H,
                 2 * bbox.v[1] + bbox.v[3] + 2 * cum_tx,
                 2 * bbox.v[2] + bbox.v[4] + 2 * cum_ty)

\* lines 259-280: the record of a qualifying group, appended to acc
emit(el, path, cum_tx, cum_ty, acc, vb, W, H) ==
    emit_box(el, path, cum_tx, cum_ty, acc, vb, W, H, get_group_bbox(el))

RECURSIVE walk(_, _, _, _, _, _, _, _)
RECURSIVE walk_kids(_, _, _, _, _, _, _, _, _)

\* mutant of walk_at: a group is emitted after its children
walk_at_postorder(el, path, cum_tx, cum_ty, acc, vb, W, H) ==
    LET below == walk_kids(el, path, 1, cum_tx, cum_ty, acc, vb, W, H)
    IN  IF below.k = "raise" THEN below
        ELSE IF strip_ns(el) = "g" /\ qualifies(el)
        THEN emit(el, path, cum_tx, cum_ty, below, vb, W, H)
        ELSE below

\* lines 254-282 with the accumulated translation of the element
walk_at(el, path, cum_tx, cum_ty, acc, vb, W, H) ==
    walk_kids(el, path, 1, cum_tx, cum_ty,
              IF strip_ns(el) = "g" /\ qualifies(el)
              THEN emit(el, path, cum_tx, cum_ty, acc, vb, W, H)
              ELSE acc,
              vb, W, H)

\* mutant of walk_from: the children are resolved relative to their parent only
walk_from_parent_only(el, path, cum_tx0, cum_ty0, acc, vb, W, H, t) ==
    IF t.k = "raise" THEN t
    ELSE LET own == IF strip_ns(el) = "g" /\ qualifies(el)
                    THEN emit(el, path, cum_tx0 + t.v[1], cum_ty0 + t.v[2],
                              acc, vb, W, H)
                    ELSE acc
         IN  walk_kids(el, path, 1, t.v[1], t.v[2], own, vb, W, H)

\* lines 251-253, t being _parse_transform(el.get("transform"))
walk_from(el, path, cum_tx0, cum_ty0, acc, vb, W, H, t) ==
    IF t.k = "raise" THEN t
    ELSE walk_at(el, path, cum_tx0 + t.v[1], cum_ty0 + t.v[2], acc, vb, W, H)

walk(el, path, cum_tx0, cum_ty0, acc, vb, W, H) ==
    walk_from(el, path, cum_tx0, cum_ty0, acc, vb, W, H,
              parse_transform(el.transform))

\* lines 281-282: for child in el, from child i on
walk_kids(el, path, i, cum_tx, cum_ty, acc, vb, W, H) ==
    IF i > Len(el.kids) \/ acc.k = "raise" THEN acc
    ELSE walk_kids(el, path, i + 1, cum_tx, cum_ty,
                   walk(el.kids[i], Append(path, i), cum_tx, cum_ty, acc, vb, W, H),
                   vb, W, H)

\* mutant of fresh_result: the list outlives the call (a module-level list)
stale_result == [k |-> "ok", out |-> result, src |-> trace]

\* line 248: the list of one call starts empty
fresh_result == [k |-> "ok", out |-> <<>>, src |-> <<>>]

\* line 284, vb being the view box of lines 231-241
walk_root(root, W, H, vb) ==
    IF vb.k = "raise" THEN vb
    ELSE walk(root, <<>>, 0, 0, fresh_result, vb.v, W, H)

svg_to_component_positions(root, W, H) ==
    walk_root(root, W, H, view_box_of(root, W, H))

(***************************************************************************)
(* Documents                                                               *)
(***************************************************************************)
G(cls, tr, id, kids) ==
    [Blank EXCEPT !.tag = "g", !.class = cls, !.transform = tr, !.id = id,
                  !.kids = kids]

Rect(x, y, w, h) ==
    [Blank EXCEPT !.tag = "rect", !.x = x, !.y = y, !.width = w, !.height = h]

\* <polygon points="..."/> and <polyline points="..."/>
Poly(tag, toks) ==
    [Blank EXCEPT !.tag = tag,
                  !.points = [set |-> TRUE, toks |-> toks, move |-> None]]

\* <path d="M x y"/>
Path(x, y) ==
    [Blank EXCEPT !.tag = "path",
                  !.d = [set |-> TRUE, toks |-> <<Junk, x, y>>,
                         move |-> Ok(<<x, y>>)]]

\* <path d="L 1 1"/>: no move command
PathNoMove ==
    [Blank EXCEPT !.tag = "path",
                  !.d = [set |-> TRUE, toks |-> <<Junk, Num(1), Num(1)>>,
                         move |-> None]]

Text(t, kids) == [Blank EXCEPT !.tag = "text", !.text = t, !.kids = kids]
TSpan(t) == [Blank EXCEPT !.tag = "tspan", !.text = t]
Circle == [Blank EXCEPT !.tag = "circle"]

ViewBox(parts) == [set |-> TRUE, parts |-> parts]

Svg(vb, w, h, tr, kids) ==
    [Blank EXCEPT !.tag = "svg", !.ns = "http://www.w3.org/2000/svg",
                  !.viewBox = vb, !.width = w, !.height = h,
                  !.transform = tr, !.kids = kids]

Translate1(a) == [fn |-> "translate", args |-> <<Num(a)>>]
Translate(a, b) == [fn |-> "translate", args |-> <<Num(a), Num(b)>>]
Matrix(a, b, c, d, e, f) ==
    [fn |-> "matrix", args |-> <<Num(a), Num(b), Num(c), Num(d), Num(e), Num(f)>>]
Rotate(a) == [fn |-> "rotate", args |-> <<Num(a)>>]
Scale(a) == [fn |-> "scale", args |-> <<Num(a)>>]
TranslateOf(args) == [fn |-> "translate", args |-> args]
MatrixOf(args) == [fn |-> "matrix", args |-> args]

Input(svg, W, H) == [svg |-> svg, W |-> W, H |-> H]

Dims == 1..MaxDim
Coords == 0..MaxCoord

(***************************************************************************)
(* The caller                                                              *)
(***************************************************************************)
NoFirst == [set |-> FALSE, svg |-> Blank, W |-> 0, H |-> 0,
            pc |-> "ready", result |-> <<>>, exc |-> "none"]

\* main.py lines 41-42: the counter at startup, no call in progress
IdAtRest ==
    /\ agent_id_counter = 0
    /\ agent_id_lock = 0
    /\ id_pc = [t \in 1..NumThreads |-> "idle"]
    /\ id_read = [t \in 1..NumThreads |-> 0]
    /\ id_returned = <<>>

\* event_bus.py lines 25-26: no client, no broadcast in progress
BusAtRest ==
    /\ clients = {}
    /\ ws_state = [c \in 1..NumClients |-> "new"]
    /\ bc_pc = "idle"
    /\ bc_clients = <<>>
    /\ bc_i = 1
    /\ bc_sent = {}
    /\ bc_failed = {}
    /\ bc_at_start = {}
    /\ bc_unregistered = {}
    /\ bc_count = 0

NoResult == [kind |-> "none", text |-> ""]
Returned(text) == [kind |-> "return", text |-> text]
Raised(text) == [kind |-> "raise", text |-> text]

\* no agent run in progress
RunAtRest ==
    /\ runner = "run_fix_sync"
    /\ smoke_test = FALSE
    /\ run_pc = "idle"
    /\ sandbox = "none"
    /\ run_pending = NoResult
    /\ run_result = NoResult
    /\ run_log = <<>>
    /\ run_count = 0

NoHand == [type |-> "none", task |-> 0]

\* voice.py lines 113-129 with the given recorder configuration
VoiceStart(bin) ==
    /\ record_bin = bin
    /\ inbound_queue = <<>>
    /\ inbound_waiters = <<>>
    /\ inbound_count = 0
    /\ tts_loop_busy = FALSE
    /\ is_busy = FALSE
    /\ task_pc = [k \in 1..(NumTurns + NumHandlers) |-> "idle"]
    /\ task_result = [k \in 1..(NumTurns + NumHandlers) |-> NoResult]
    /\ recording_process = 0
    /\ recording_audio_path = 0
    /\ live_recorders = {}
    /\ proc_count = 0
    /\ hand_count = 0
    /\ last_hand = NoHand

VoiceAtRest == VoiceStart(TRUE)

\* the sanitiser has not been called
LabelAtRest ==
    /\ mermaid_code = <<>>
    /\ sanitized = <<>>
    /\ resanitized = <<>>
    /\ sanitize_pass = 0

\* no call of _wait_for_inbound or _enqueue_inbound has been made
WaitAtRest ==
    /\ wait_pc = [w \in 1..NumWaiters |-> "idle"]
    /\ wait_got = [w \in 1..NumWaiters |-> 0]
    /\ fut_result = [w \in 1..NumWaiters |-> 0]
    /\ scheduled = <<>>
    /\ enq_msg = 0
    /\ tts_popped = {}

NoBody == [agent_id |-> [t |-> "missing", v |-> 0], n |-> 0]

\* main.py lines 30-34, before any connection or request
ServerAtRest ==
    /\ agent_state_store = <<>>
    /\ posted = <<>>
    /\ ws_spawn_connections = 0
    /\ ws_poke_connections = 0
    /\ conn_kind = [h \in 1..NumConns |-> "poke"]
    /\ conn_pc = [h \in 1..NumConns |-> "none"]
    /\ conn_snap = [h \in 1..NumConns |-> <<>>]
    /\ received = [h \in 1..NumConns |-> <<>>]
    /\ post_pc = [q \in 1..MaxPosts |-> "idle"]
    /\ post_body = [q \in 1..MaxPosts |-> NoBody]
    /\ post_list = [q \in 1..MaxPosts |-> <<>>]
    /\ post_i = [q \in 1..MaxPosts |-> 0]
    /\ st_pc = "sleeping"
    /\ st_items = <<>>
    /\ st_list = <<>>
    /\ st_ticks = 0

OutsideSvgAtRest ==
    IdAtRest /\ BusAtRest /\ RunAtRest /\ VoiceAtRest /\ LabelAtRest
    /\ WaitAtRest /\ ServerAtRest

InitFrom(inputs) ==
    /\ OutsideSvgAtRest
    /\ \E in \in inputs :
          /\ svg_input = in.svg
          /\ png_width = in.W
          /\ png_height = in.H
    /\ pc = "ready"
    /\ result = <<>>
    /\ exc = "none"
    /\ trace = <<>>
    /\ first = NoFirst
    /\ interleaved = FALSE

\* documents a caller extracts between two runs on the same input
Others ==
    { Svg(ViewBox(<<Num(0), Num(0), Num(2), Num(2)>>), AbsentTok, AbsentTok, <<>>,
          << G(<<"node">>, <<>>, <<>>, <<Rect(Num(0), Num(0), Num(1), Num(1))>>) >>) }

\* what a call leaves behind
Outcome(new_pc, new_result, new_exc, new_trace) ==
    /\ pc' = new_pc
    /\ result' = new_result
    /\ exc' = new_exc
    /\ trace' = new_trace
    /\ first' = IF first.set THEN first
                ELSE [set |-> TRUE, svg |-> svg_input,
                      W |-> png_width, H |-> png_height,
                      pc |-> new_pc, result |-> new_result, exc |-> new_exc]
    /\ interleaved' = (interleaved \/ (first.set /\ svg_input # first.svg))

\* the call returns its list or raises
Finish(r) ==
    IF r.k = "raise"
    THEN Outcome("raised", <<>>, r.e, <<>>)
    ELSE Outcome("returned", r.out, "none", r.src)

\* one call of svg_to_component_positions(svg_input, png_width, png_height)
Call ==
    /\ pc = "ready"
    /\ Finish(svg_to_component_positions(svg_input, png_width, png_height))
    /\ UNCHANGED <<svg_input, png_width, png_height>>
    /\ UNCHANGED outside_svg

\* the caller prepares its next call: the first input again, or another one
NextInput ==
    /\ pc \in {"returned", "raised"}
    /\ \E s \in {first.svg} \cup Others : svg_input' = s
    /\ pc' = "ready"
    /\ UNCHANGED <<png_width, png_height, result, exc, trace, first, interleaved>>
    /\ UNCHANGED outside_svg

Next == Call \/ NextInput

(***************************************************************************)
(* server/main.py: _next_agent_id, called from several threads             *)
(***************************************************************************)
Threads == 1..NumThreads

\* no extraction in progress
SvgAtRest ==
    /\ svg_input = Blank
    /\ png_width = 1
    /\ png_height = 1
    /\ pc = "ready"
    /\ result = <<>>
    /\ exc = "none"
    /\ trace = <<>>
    /\ first = NoFirst
    /\ interleaved = FALSE

OutsideIdAtRest ==
    SvgAtRest /\ BusAtRest /\ RunAtRest /\ VoiceAtRest /\ LabelAtRest
    /\ WaitAtRest /\ ServerAtRest

\* calls started so far
IdCalls == Len(id_returned) + Cardinality({ t \in Threads : id_pc[t] # "idle" })

\* mutant of LockIsFree: the lock is not honoured
LockIgnored(t) == TRUE

\* threading.Lock: acquire blocks while another thread holds the lock
LockIsFree(t) == agent_id_lock = 0

\* a thread calls _next_agent_id()
NextAgentIdCall(t) ==
    /\ id_pc[t] = "idle"
    /\ IdCalls < MaxCalls
    /\ id_pc' = [id_pc EXCEPT ![t] = "acquire"]
    /\ UNCHANGED <<agent_id_counter, agent_id_lock, id_read, id_returned>>
    /\ UNCHANGED outside_id

\* line 48: with _agent_id_lock
NextAgentIdAcquire(t) ==
    /\ id_pc[t] = "acquire"
    /\ LockIsFree(t)
    /\ agent_id_lock' = t
    /\ id_pc' = [id_pc EXCEPT ![t] = "read"]
    /\ UNCHANGED <<agent_id_counter, id_read, id_returned>>
    /\ UNCHANGED outside_id

\* line 49, right-hand side: the counter is read
NextAgentIdRead(t) ==
    /\ id_pc[t] = "read"
    /\ id_read' = [id_read EXCEPT ![t] = agent_id_counter]
    /\ id_pc' = [id_pc EXCEPT ![t] = "write"]
    /\ UNCHANGED <<agent_id_counter, agent_id_lock, id_returned>>
    /\ UNCHANGED outside_id

\* line 49, assignment: _agent_id_counter = (value read % 9) + 1
NextAgentIdWrite(t) ==
    /\ id_pc[t] = "write"
    /\ agent_id_counter' = (id_read[t] % 9) + 1
    /\ id_pc' = [id_pc EXCEPT ![t] = "return"]
    /\ UNCHANGED <<agent_id_lock, id_read, id_returned>>
    /\ UNCHANGED outside_id

\* line 50: return _agent_id_counter, leaving the with block
NextAgentIdReturn(t) ==
    /\ id_pc[t] = "return"
    /\ id_returned' = Append(id_returned, agent_id_counter)
    /\ agent_id_lock' = 0
    /\ id_pc' = [id_pc EXCEPT ![t] = "idle"]
    /\ UNCHANGED <<agent_id_counter, id_read>>
    /\ UNCHANGED outside_id

NextId ==
    \E t \in Threads :
        \/ NextAgentIdCall(t)
        \/ NextAgentIdAcquire(t)
        \/ NextAgentIdRead(t)
        \/ NextAgentIdWrite(t)
        \/ NextAgentIdReturn(t)

InitId == IdAtRest /\ OutsideIdAtRest
SpecId == InitId /\ [][NextId]_vars

(***************************************************************************)
(* server/event_bus.py: register, unregister, broadcast                    *)
(***************************************************************************)
WebSockets == 1..NumClients

OutsideBusAtRest ==
    SvgAtRest /\ IdAtRest /\ RunAtRest /\ VoiceAtRest /\ LabelAtRest
    /\ WaitAtRest /\ ServerAtRest

\* list(S): the elements of a set in some order
ListsOf(S) ==
    { l \in [1..Cardinality(S) -> S] :
        \A i \in 1..Cardinality(S) : \A j \in 1..Cardinality(S) :
            l[i] = l[j] => i = j }

\* main.py lines 159, 281: a client connects and its handler registers it
register(ws) ==
    /\ ws_state[ws] = "new"
    /\ clients' = clients \cup {ws}
    /\ ws_state' = [ws_state EXCEPT ![ws] = "open"]
    /\ UNCHANGED <<bc_pc, bc_clients, bc_i, bc_sent, bc_failed, bc_at_start,
                   bc_unregistered, bc_count>>
    /\ UNCHANGED outside_bus

\* the peer goes away; the handler has not yet noticed
Disconnect(ws) ==
    /\ ws_state[ws] = "open"
    /\ ws_state' = [ws_state EXCEPT ![ws] = "dead"]
    /\ UNCHANGED <<clients, bc_pc, bc_clients, bc_i, bc_sent, bc_failed,
                   bc_at_start, bc_unregistered, bc_count>>
    /\ UNCHANGED outside_bus

\* main.py lines 191-197, 293-300: the handler ends, unregisters and closes
unregister(ws) ==
    /\ ws_state[ws] \in {"open", "dead"}
    /\ clients' = clients \ {ws}
    /\ ws_state' = [ws_state EXCEPT ![ws] = "closed"]
    /\ bc_unregistered' = bc_unregistered \cup {ws}
    /\ UNCHANGED <<bc_pc, bc_clients, bc_i, bc_sent, bc_failed, bc_at_start,
                   bc_count>>
    /\ UNCHANGED outside_bus

\* lines 51-53: the payload is built and the registry is copied under the lock
BroadcastStart ==
    /\ bc_pc \in {"idle", "returned"}
    /\ bc_count < MaxBroadcasts
    /\ \E l \in ListsOf(clients) : bc_clients' = l
    /\ bc_i' = 1
    /\ bc_pc' = "sending"
    /\ bc_sent' = {}
    /\ bc_failed' = {}
    /\ bc_at_start' = clients
    /\ bc_unregistered' = {}
    /\ bc_count' = bc_count + 1
    /\ UNCHANGED <<clients, ws_state>>
    /\ UNCHANGED outside_bus

\* mutant of SendFailed: the exception of send_text leaves broadcast
SendFailedRaises(ws) ==
    /\ bc_failed' = bc_failed \cup {ws}
    /\ bc_pc' = "raised"
    /\ UNCHANGED <<clients, bc_i, bc_sent>>

\* lines 57-59: except Exception: pass
SendFailed(ws) ==
    /\ bc_failed' = bc_failed \cup {ws}
    /\ bc_i' = bc_i + 1
    /\ UNCHANGED <<clients, bc_pc, bc_sent>>

\* line 56: send_text succeeded
SendDone(ws) ==
    /\ bc_sent' = bc_sent \cup {ws}
    /\ bc_i' = bc_i + 1
    /\ UNCHANGED <<clients, bc_pc, bc_failed>>

\* lines 54-59: one iteration of for ws in clients
BroadcastSend ==
    /\ bc_pc = "sending"
    /\ bc_i <= Len(bc_clients)
    /\ IF ws_state[bc_clients[bc_i]] = "open"
       THEN SendDone(bc_clients[bc_i])
       ELSE SendFailed(bc_clients[bc_i])
    /\ UNCHANGED <<ws_state, bc_clients, bc_at_start, bc_unregistered, bc_count>>
    /\ UNCHANGED outside_bus

\* the loop is over: broadcast returns None
BroadcastReturn ==
    /\ bc_pc = "sending"
    /\ bc_i > Len(bc_clients)
    /\ bc_pc' = "returned"
    /\ UNCHANGED <<clients, ws_state, bc_clients, bc_i, bc_sent, bc_failed,
                   bc_at_start, bc_unregistered, bc_count>>
    /\ UNCHANGED outside_bus

NextBus ==
    \/ \E ws \in WebSockets : register(ws)
    \/ \E ws \in WebSockets : Disconnect(ws)
    \/ \E ws \in WebSockets : unregister(ws)
    \/ BroadcastStart
    \/ BroadcastSend
    \/ BroadcastReturn

InitBus == BusAtRest /\ OutsideBusAtRest
SpecBus == InitBus /\ [][NextBus]_vars

(***************************************************************************)
(* poke-mcp/server.py run_modal_agent and mcp_server/agent_runner.py       *)
(* run_fix_sync, from the creation of the sandbox on.                      *)
(*   The outcome of a step is "ok", "fail" (the command's return code is   *)
(*   not 0; for the detection of changes: git reports none; for the pull   *)
(*   request: _create_pr raised) or "raise" (sb.exec or another call of    *)
(*   the step raised an exception).                                        *)
(***************************************************************************)
OutsideRunAtRest ==
    SvgAtRest /\ IdAtRest /\ BusAtRest /\ VoiceAtRest /\ LabelAtRest
    /\ WaitAtRest /\ ServerAtRest

Runners == {"run_modal_agent", "run_fix_sync"}

Logged(step, o) == run_log' = Append(run_log, [step |-> step, outcome |-> o])

\* the call goes on with the next step
Continue(next) ==
    /\ run_pc' = next
    /\ UNCHANGED <<run_pending, run_result>>

\* mutant of Leave: a return inside try skips the finally block
LeaveWithoutFinally(r) ==
    /\ run_pc' = "done"
    /\ run_pending' = r
    /\ run_result' = r

\* a return or an exception inside try: the finally block runs first
Leave(r) ==
    /\ run_pc' = "finally"
    /\ run_pending' = r
    /\ UNCHANGED run_result

\* server.py lines 609-610: except Exception returns "Error: ...";
\* agent_runner.py has no except clause: the exception propagates
Unexpected ==
    IF runner = "run_modal_agent" THEN Returned("Error") ELSE Raised("Exception")

\* a tool calls run_modal_agent or run_fix_sync
RunStart ==
    /\ run_pc \in {"idle", "done"}
    /\ run_count < MaxRuns
    /\ \E r \in Runners : \E st \in BOOLEAN :
          /\ runner' = r
          /\ smoke_test' = (st /\ r = "run_modal_agent")
    /\ run_pc' = "create"
    /\ sandbox' = "none"
    /\ run_pending' = NoResult
    /\ run_result' = NoResult
    /\ run_log' = <<>>
    /\ run_count' = run_count + 1
    /\ UNCHANGED outside_run

\* server.py lines 456-463 (inside try); agent_runner.py lines 151-152 (before try)
CreateSandbox ==
    /\ run_pc = "create"
    /\ \E o \in {"ok", "raise"} :
          /\ Logged("create", o)
          /\ IF o = "ok"
             THEN sandbox' = "running" /\ Continue("clone")
             ELSE /\ sandbox' = sandbox
                  /\ IF runner = "run_modal_agent"
                     THEN Leave(Unexpected)
                     ELSE /\ run_pc' = "done"
                          /\ run_pending' = Raised("Exception")
                          /\ run_result' = Raised("Exception")
    /\ UNCHANGED <<runner, smoke_test, run_count>>
    /\ UNCHANGED outside_run

\* server.py lines 466-470; agent_runner.py lines 155-158
Clone ==
    /\ run_pc = "clone"
    /\ \E o \in {"ok", "fail", "raise"} :
          /\ Logged("clone", o)
          /\ CASE o = "ok" -> Continue("branch")
               [] o = "fail" -> Leave(Returned("Clone failed"))
               [] OTHER -> Leave(Unexpected)
    /\ UNCHANGED <<runner, smoke_test, sandbox, run_count>>
    /\ UNCHANGED outside_run

\* server.py lines 473-481; agent_runner.py lines 160-169: rev-parse, config
\* and checkout -b, none of whose return codes is looked at
CreateBranch ==
    /\ run_pc = "branch"
    /\ \E o \in {"ok", "fail", "raise"} :
          /\ Logged("branch", o)
          /\ IF o = "raise" THEN Leave(Unexpected) ELSE Continue("agent")
    /\ UNCHANGED <<runner, smoke_test, sandbox, run_count>>
    /\ UNCHANGED outside_run

\* server.py lines 484-512; agent_runner.py lines 171-194
RunAgent ==
    /\ run_pc = "agent"
    /\ \E o \in {"ok", "fail", "raise"} :
          /\ Logged("agent", o)
          /\ CASE o = "ok" -> Continue("detect")
               [] o = "fail" -> Leave(Returned("Agent exited"))
               [] OTHER -> Leave(Unexpected)
    /\ UNCHANGED <<runner, smoke_test, sandbox, run_count>>
    /\ UNCHANGED outside_run

\* server.py lines 515-528; agent_runner.py lines 196-203
DetectChanges ==
    /\ run_pc = "detect"
    /\ \E o \in {"ok", "fail", "raise"} :
          /\ Logged("detect", o)
          /\ CASE o = "ok" -> Continue("commit")
               [] o = "fail" ->
                     Leave(Returned("Agent completed but made no file changes"))
               [] OTHER -> Leave(Unexpected)
    /\ UNCHANGED <<runner, smoke_test, sandbox, run_count>>
    /\ UNCHANGED outside_run

\* server.py lines 531-536; agent_runner.py lines 206-211
Commit ==
    /\ run_pc = "commit"
    /\ \E o \in {"ok", "fail", "raise"} :
          /\ Logged("commit", o)
          /\ CASE o = "ok" -> Continue("push")
               [] o = "fail" -> Leave(Returned("Commit failed"))
               [] OTHER -> Leave(Unexpected)
    /\ UNCHANGED <<runner, smoke_test, sandbox, run_count>>
    /\ UNCHANGED outside_run

\* server.py lines 538-544; agent_runner.py lines 213-217
Push ==
    /\ run_pc = "push"
    /\ \E o \in {"ok", "fail", "raise"} :
          /\ Logged("push", o)
          /\ CASE o = "ok" -> Continue("pr")
               [] o = "fail" -> Leave(Returned("Push failed"))
               [] OTHER -> Leave(Unexpected)
    /\ UNCHANGED <<runner, smoke_test, sandbox, run_count>>
    /\ UNCHANGED outside_run

\* server.py lines 547-564; agent_runner.py lines 220-240
OpenPR ==
    /\ run_pc = "pr"
    /\ \E o \in {"ok", "fail"} :
          /\ Logged("pr", o)
          /\ IF o = "fail"
             THEN Leave(Returned("PR creation failed"))
             ELSE IF smoke_test
             THEN Continue("smoke")
             ELSE Leave(Returned("PR created"))
    /\ UNCHANGED <<runner, smoke_test, sandbox, run_count>>
    /\ UNCHANGED outside_run

\* server.py lines 569-607: the smoke test, its exceptions caught
SmokeTest ==
    /\ run_pc = "smoke"
    /\ \E o \in {"ok", "raise"} : Logged("smoke", o)
    /\ Leave(Returned("PR created"))
    /\ UNCHANGED <<runner, smoke_test, sandbox, run_count>>
    /\ UNCHANGED outside_run

\* server.py lines 612-617 (if sb: sb.terminate()); agent_runner.py lines 242-243
Terminate ==
    /\ run_pc = "finally"
    /\ sandbox' = IF sandbox = "running" THEN "terminated" ELSE sandbox
    /\ run_result' = run_pending
    /\ run_pc' = "done"
    /\ UNCHANGED <<runner, smoke_test, run_pending, run_log, run_count>>
    /\ UNCHANGED outside_run

NextRun ==
    \/ RunStart
    \/ CreateSandbox
    \/ Clone
    \/ CreateBranch
    \/ RunAgent
    \/ DetectChanges
    \/ Commit
    \/ Push
    \/ OpenPR
    \/ SmokeTest
    \/ Terminate

InitRun == RunAtRest /\ OutsideRunAtRest
SpecRun == InitRun /\ [][NextRun]_vars

(***************************************************************************)
(* server/voice.py: run_record_turn_once, start_recording, stop_recording, *)
(* stop_and_process, the TTS loop and the chat poller.                     *)
(*   The coroutines run on one event loop: the statements between two      *)
(*   awaits are one step.  Tasks 1..NumTurns are requests to /record-once, *)
(*   the others are /ws/poke handlers, which take one message at a time.   *)
(***************************************************************************)
OutsideVoiceAtRest ==
    SvgAtRest /\ IdAtRest /\ BusAtRest /\ RunAtRest /\ LabelAtRest
    /\ WaitAtRest /\ ServerAtRest

TurnTasks == 1..NumTurns
HandlerTasks == (NumTurns + 1)..(NumTurns + NumHandlers)
Tasks == TurnTasks \cup HandlerTasks

Result(ok, reason) == [kind |-> "return", ok |-> ok, reason |-> reason]
Exception == [kind |-> "raise", ok |-> FALSE, reason |-> "exception"]

\* the task is between the acceptance of its turn and the end of the turn
InTurn(k) == task_pc[k] \in {"record", "transcribe", "send", "waiting", "speak"}

\* where a task rests after its call
Rest(k) == IF k \in TurnTasks THEN "done" ELSE "idle"

Without(seq, k) == SelectSeq(seq, LAMBDA w : w # k)

\* lines 577-580 and 773-776: the call ends through finally: _is_busy = False
End(k, res) ==
    /\ task_pc' = [task_pc EXCEPT ![k] = Rest(k)]
    /\ task_result' = [task_result EXCEPT ![k] = res]
    /\ is_busy' = FALSE

\* lines 522-533: return ok=false before anything is set
Reject(t, reason) ==
    /\ task_pc' = [task_pc EXCEPT ![t] = "done"]
    /\ task_result' = [task_result EXCEPT ![t] = Result(FALSE, reason)]
    /\ UNCHANGED is_busy

\* lines 535-540: the turn is accepted and waits for the recording
Accept(t) ==
    /\ task_pc' = [task_pc EXCEPT ![t] = "record"]
    /\ is_busy' = TRUE
    /\ UNCHANGED task_result

\* lines 511-540: run_record_turn_once up to its first await
RecordOnce(t) ==
    /\ task_pc[t] = "idle"
    /\ IF inbound_queue # <<>> THEN Reject(t, "queue_pending")
       ELSE IF tts_loop_busy THEN Reject(t, "speaking")
       ELSE IF is_busy THEN Reject(t, "busy")
       ELSE Accept(t)
    /\ UNCHANGED <<record_bin, inbound_queue, inbound_waiters, inbound_count,
                   tts_loop_busy, recording_process, recording_audio_path,
                   live_recorders, proc_count, hand_count, last_hand>>
    /\ UNCHANGED outside_voice

\* lines 540-548: the recording is over
Recorded(t) ==
    /\ task_pc[t] = "record"
    /\ \E o \in {"ok", "short", "raise"} :
          CASE o = "ok" -> /\ task_pc' = [task_pc EXCEPT ![t] = "transcribe"]
                           /\ UNCHANGED <<task_result, is_busy>>
            [] o = "short" -> End(t, Result(FALSE, "audio_too_short"))
            [] OTHER -> End(t, Exception)
    /\ UNCHANGED <<record_bin, inbound_queue, inbound_waiters, inbound_count,
                   tts_loop_busy, recording_process, recording_audio_path,
                   live_recorders, proc_count, hand_count, last_hand>>
    /\ UNCHANGED outside_voice

\* lines 548-561 and 733-746: the transcript is there; "skip" is send_to_poke = False
Transcribed(k) ==
    /\ task_pc[k] = "transcribe"
    /\ \E o \in {"ok", "skip", "empty", "raise"} :
          CASE o = "ok" -> /\ task_pc' = [task_pc EXCEPT ![k] = "send"]
                           /\ UNCHANGED <<task_result, is_busy>>
            [] o = "skip" -> End(k, Result(TRUE, ""))
            [] o = "empty" -> End(k, Result(FALSE, "empty_transcript"))
            [] OTHER -> End(k, Exception)
    /\ UNCHANGED <<record_bin, inbound_queue, inbound_waiters, inbound_count,
                   tts_loop_busy, recording_process, recording_audio_path,
                   live_recorders, proc_count, hand_count, last_hand>>
    /\ UNCHANGED outside_voice

\* lines 561-571 and 746-761 with _wait_for_inbound lines 319-329: Poke has
\* acknowledged; "skip" is await_inbound = False, talk is the talkback condition
Sent(k) ==
    /\ task_pc[k] = "send"
    /\ \E o \in {"await", "skip", "raise"} : \E talk \in BOOLEAN :
          CASE o = "raise" ->
                 /\ End(k, Exception)
                 /\ UNCHANGED <<inbound_queue, inbound_waiters>>
            [] o = "skip" ->
                 /\ End(k, Result(TRUE, ""))
                 /\ UNCHANGED <<inbound_queue, inbound_waiters>>
            [] OTHER ->
                 IF inbound_queue # <<>>
                 THEN /\ inbound_queue' = Tail(inbound_queue)
                      /\ UNCHANGED inbound_waiters
                      /\ IF talk
                         THEN /\ task_pc' = [task_pc EXCEPT ![k] = "speak"]
                              /\ UNCHANGED <<task_result, is_busy>>
                         ELSE End(k, Result(TRUE, ""))
                 ELSE /\ inbound_waiters' = Append(inbound_waiters, k)
                      /\ task_pc' = [task_pc EXCEPT ![k] = "waiting"]
                      /\ UNCHANGED <<inbound_queue, task_result, is_busy>>
    /\ UNCHANGED <<record_bin, inbound_count, tts_loop_busy, recording_process,
                   recording_audio_path, live_recorders, proc_count, hand_count,
                   last_hand>>
    /\ UNCHANGED outside_voice

\* lines 242-255: the poller finds a message: to the first waiter, else queued
InboundArrives ==
    /\ inbound_count < MaxInbound
    /\ ~tts_loop_busy
    /\ inbound_count' = inbound_count + 1
    /\ IF inbound_waiters # <<>>
       THEN /\ inbound_waiters' = Tail(inbound_waiters)
            /\ task_pc' = [task_pc EXCEPT ![Head(inbound_waiters)] = "speak"]
            /\ UNCHANGED inbound_queue
       ELSE /\ inbound_queue' = Append(inbound_queue, inbound_count + 1)
            /\ UNCHANGED <<inbound_waiters, task_pc>>
    /\ UNCHANGED <<record_bin, tts_loop_busy, is_busy, task_result,
                   recording_process, recording_audio_path, live_recorders,
                   proc_count, hand_count, last_hand>>
    /\ UNCHANGED outside_voice

\* lines 330-333: the wait times out: RuntimeError
WaitTimeout(k) ==
    /\ task_pc[k] = "waiting"
    /\ inbound_waiters' = Without(inbound_waiters, k)
    /\ End(k, Exception)
    /\ UNCHANGED <<record_bin, inbound_queue, inbound_count, tts_loop_busy,
                   recording_process, recording_audio_path, live_recorders,
                   proc_count, hand_count, last_hand>>
    /\ UNCHANGED outside_voice

\* lines 569-573 and 755-767: the inbound message has been spoken, or speaking failed
Spoken(k) ==
    /\ task_pc[k] = "speak"
    /\ \E o \in {"ok", "raise"} :
          IF o = "ok" THEN End(k, Result(TRUE, "")) ELSE End(k, Exception)
    /\ UNCHANGED <<record_bin, inbound_queue, inbound_waiters, inbound_count,
                   tts_loop_busy, recording_process, recording_audio_path,
                   live_recorders, proc_count, hand_count, last_hand>>
    /\ UNCHANGED outside_voice

\* lines 444-464: a tick of the TTS loop takes messages from the queue and speaks
TtsTick ==
    /\ ~tts_loop_busy
    /\ inbound_queue # <<>>
    /\ ~is_busy
    /\ tts_loop_busy' = TRUE
    /\ \E n \in 1..Len(inbound_queue) :
          inbound_queue' = SubSeq(inbound_queue, n + 1, Len(inbound_queue))
    /\ UNCHANGED <<record_bin, inbound_waiters, inbound_count, is_busy, task_pc,
                   task_result, recording_process, recording_audio_path,
                   live_recorders, proc_count, hand_count, last_hand>>
    /\ UNCHANGED outside_voice

\* lines 450-468: speaking is over: the next batch, or the tick ends
TtsSpoken ==
    /\ tts_loop_busy
    /\ IF inbound_queue # <<>> /\ ~is_busy
       THEN /\ \E n \in 1..Len(inbound_queue) :
                  inbound_queue' = SubSeq(inbound_queue, n + 1, Len(inbound_queue))
            /\ UNCHANGED tts_loop_busy
       ELSE /\ tts_loop_busy' = FALSE
            /\ UNCHANGED inbound_queue
    /\ UNCHANGED <<record_bin, inbound_waiters, inbound_count, is_busy, task_pc,
                   task_result, recording_process, recording_audio_path,
                   live_recorders, proc_count, hand_count, last_hand>>
    /\ UNCHANGED outside_voice

\* mutant of AlreadyRecording: start_recording does not look at _recording_process
NeverRecording == FALSE

\* line 643: if _recording_process is not None
AlreadyRecording == recording_process # 0

\* main.py lines 173-176 with start_recording, lines 634-671
HandOpen(h) ==
    /\ task_pc[h] = "idle"
    /\ hand_count < MaxMessages
    /\ hand_count' = hand_count + 1
    /\ last_hand' = [type |-> "hand_open", task |-> h]
    /\ IF AlreadyRecording \/ ~record_bin
       THEN UNCHANGED <<recording_process, recording_audio_path, live_recorders,
                        proc_count>>
       ELSE /\ proc_count' = proc_count + 1
            /\ recording_process' = proc_count + 1
            /\ recording_audio_path' = proc_count + 1
            /\ live_recorders' = live_recorders \cup {proc_count + 1}
    /\ UNCHANGED <<record_bin, inbound_queue, inbound_waiters, inbound_count,
                   tts_loop_busy, is_busy, task_pc, task_result>>
    /\ UNCHANGED outside_voice

\* lines 720-722: stop_recording returned None
NotRecording(h) ==
    /\ task_result' = [task_result EXCEPT ![h] = Result(FALSE, "not_recording")]
    /\ UNCHANGED <<recording_process, recording_audio_path, live_recorders,
                   is_busy, task_pc>>

\* lines 685-698 and 724-733: the recorder is stopped, the state cleared, and
\* the turn begins; "short" is the audio being too short (lines 728-730)
StopAndBegin(h) ==
    /\ live_recorders' = live_recorders \ {recording_process}
    /\ recording_process' = 0
    /\ recording_audio_path' = 0
    /\ \E o \in {"ok", "short"} :
          IF o = "short"
          THEN End(h, Result(FALSE, "audio_too_short"))
          ELSE /\ is_busy' = TRUE
               /\ task_pc' = [task_pc EXCEPT ![h] = "transcribe"]
               /\ UNCHANGED task_result

\* main.py lines 178-183 with stop_and_process up to its first await
HandClose(h) ==
    /\ task_pc[h] = "idle"
    /\ hand_count < MaxMessages
    /\ hand_count' = hand_count + 1
    /\ last_hand' = [type |-> "hand_close", task |-> h]
    /\ IF recording_process = 0 THEN NotRecording(h) ELSE StopAndBegin(h)
    /\ UNCHANGED <<record_bin, inbound_queue, inbound_waiters, inbound_count,
                   tts_loop_busy, proc_count>>
    /\ UNCHANGED outside_voice

NextVoice ==
    \/ \E t \in TurnTasks : RecordOnce(t)
    \/ \E t \in TurnTasks : Recorded(t)
    \/ \E k \in Tasks : Transcribed(k)
    \/ \E k \in Tasks : Sent(k)
    \/ InboundArrives
    \/ \E k \in Tasks : WaitTimeout(k)
    \/ \E k \in Tasks : Spoken(k)
    \/ TtsTick
    \/ TtsSpoken
    \/ \E h \in HandlerTasks : HandOpen(h)
    \/ \E h \in HandlerTasks : HandClose(h)

InitVoice == (\E bin \in BOOLEAN : VoiceStart(bin)) /\ OutsideVoiceAtRest
SpecVoice == InitVoice /\ [][NextVoice]_vars

\* the voice flow of /ws/poke alone: no request to /record-once arrives
NextHands ==
    \/ \E h \in HandlerTasks : HandOpen(h)
    \/ \E h \in HandlerTasks : HandClose(h)
    \/ \E h \in HandlerTasks : Transcribed(h)
    \/ \E h \in HandlerTasks : Sent(h)
    \/ InboundArrives
    \/ \E h \in HandlerTasks : WaitTimeout(h)
    \/ \E h \in HandlerTasks : Spoken(h)
    \/ TtsTick
    \/ TtsSpoken

SpecHands == InitVoice /\ [][NextHands]_vars

(***************************************************************************)
(* server/voice.py: _enqueue_inbound and _wait_for_inbound.                *)
(*   _enqueue_inbound runs on the poller thread, concurrently with the     *)
(*   event loop: its test of _inbound_waiters and its pop are separate     *)
(*   steps.  A waiter whose timer has fired ("timed_out") has not yet run  *)
(*   its except clause.  The future is shielded, so neither a timeout nor  *)
(*   a cancellation of the waiting task makes it done.                     *)
(***************************************************************************)
outside_inbound ==
    <<svg_vars, id_vars, bus_vars, run_vars, label_vars, srv_vars, record_bin,
      tts_loop_busy, is_busy, task_pc, task_result, recording_process,
      recording_audio_path, live_recorders, proc_count, hand_count, last_hand>>

Waiters == 1..NumWaiters

\* lines 319-324: the head of the queue, or a new future among the waiters
WaitForInbound(w) ==
    /\ wait_pc[w] = "idle"
    /\ IF inbound_queue # <<>>
       THEN /\ wait_got' = [wait_got EXCEPT ![w] = Head(inbound_queue)]
            /\ inbound_queue' = Tail(inbound_queue)
            /\ wait_pc' = [wait_pc EXCEPT ![w] = "returned"]
            /\ UNCHANGED inbound_waiters
       ELSE /\ inbound_waiters' = Append(inbound_waiters, w)
            /\ wait_pc' = [wait_pc EXCEPT ![w] = "waiting"]
            /\ UNCHANGED <<wait_got, inbound_queue>>
    /\ UNCHANGED <<inbound_count, fut_result, scheduled, enq_msg, tts_popped>>
    /\ UNCHANGED outside_inbound

\* lines 242-245 and 250: the poller tests _inbound_waiters; none: queued
EnqueueTest ==
    /\ enq_msg = 0
    /\ inbound_count < MaxEnqueued
    /\ inbound_count' = inbound_count + 1
    /\ IF inbound_waiters # <<>>
       THEN /\ enq_msg' = inbound_count + 1
            /\ UNCHANGED inbound_queue
       ELSE /\ inbound_queue' = Append(inbound_queue, inbound_count + 1)
            /\ UNCHANGED enq_msg
    /\ UNCHANGED <<inbound_waiters, wait_pc, wait_got, fut_result, scheduled,
                   tts_popped>>
    /\ UNCHANGED outside_inbound

\* lines 247-248: if not w.done(): call_soon_threadsafe(w.set_result, msg)
HandOver(w, msg) ==
    IF fut_result[w] = 0
    THEN scheduled' = Append(scheduled, [fut |-> w, msg |-> msg])
    ELSE UNCHANGED scheduled

\* lines 246-249: the poller pops the first waiter (IndexError if the list
\* has become empty) and returns without queueing the message
EnqueuePop ==
    /\ enq_msg # 0
    /\ enq_msg' = 0
    /\ IF inbound_waiters = <<>>
       THEN UNCHANGED <<inbound_waiters, scheduled>>
       ELSE /\ inbound_waiters' = Tail(inbound_waiters)
            /\ HandOver(Head(inbound_waiters), enq_msg)
    /\ UNCHANGED <<inbound_queue, inbound_count, wait_pc, wait_got, fut_result,
                   tts_popped>>
    /\ UNCHANGED outside_inbound

\* the event loop runs w.set_result(msg); a waiting call returns the message
SetResult ==
    /\ scheduled # <<>>
    /\ scheduled' = Tail(scheduled)
    /\ IF fut_result[Head(scheduled).fut] # 0
       THEN UNCHANGED <<fut_result, wait_pc, wait_got>>
       ELSE /\ fut_result' =
                  [fut_result EXCEPT ![Head(scheduled).fut] = Head(scheduled).msg]
            /\ IF wait_pc[Head(scheduled).fut] = "waiting"
               THEN /\ wait_pc' =
                         [wait_pc EXCEPT ![Head(scheduled).fut] = "returned"]
                    /\ wait_got' =
                         [wait_got EXCEPT ![Head(scheduled).fut] = Head(scheduled).msg]
               ELSE UNCHANGED <<wait_pc, wait_got>>
    /\ UNCHANGED <<inbound_queue, inbound_waiters, inbound_count, enq_msg,
                   tts_popped>>
    /\ UNCHANGED outside_inbound

\* lines 326-329: the timeout of asyncio.wait_for fires
Timeout(w) ==
    /\ wait_pc[w] = "waiting"
    /\ wait_pc' = [wait_pc EXCEPT ![w] = "timed_out"]
    /\ UNCHANGED <<inbound_queue, inbound_waiters, inbound_count, wait_got,
                   fut_result, scheduled, enq_msg, tts_popped>>
    /\ UNCHANGED outside_inbound

\* lines 330-333: except asyncio.TimeoutError
TimeoutHandled(w) ==
    /\ wait_pc[w] = "timed_out"
    /\ inbound_waiters' = Without(inbound_waiters, w)
    /\ wait_pc' = [wait_pc EXCEPT ![w] = "raised"]
    /\ UNCHANGED <<inbound_queue, inbound_count, wait_got, fut_result,
                   scheduled, enq_msg, tts_popped>>
    /\ UNCHANGED outside_inbound

\* lines 325-333: the waiting task is cancelled: CancelledError is not
\* caught, the future stays among the waiters
Cancelled(w) ==
    /\ wait_pc[w] = "waiting"
    /\ wait_pc' = [wait_pc EXCEPT ![w] = "cancelled"]
    /\ UNCHANGED <<inbound_queue, inbound_waiters, inbound_count, wait_got,
                   fut_result, scheduled, enq_msg, tts_popped>>
    /\ UNCHANGED outside_inbound

\* line 453: a consumer (the TTS loop) pops the head of the queue
ConsumerPops ==
    /\ inbound_queue # <<>>
    /\ tts_popped' = tts_popped \cup {Head(inbound_queue)}
    /\ inbound_queue' = Tail(inbound_queue)
    /\ UNCHANGED <<inbound_waiters, inbound_count, wait_pc, wait_got,
                   fut_result, scheduled, enq_msg>>
    /\ UNCHANGED outside_inbound

NextInbound ==
    \/ \E w \in Waiters : WaitForInbound(w)
    \/ EnqueueTest
    \/ EnqueuePop
    \/ SetResult
    \/ \E w \in Waiters : Timeout(w)
    \/ \E w \in Waiters : TimeoutHandled(w)
    \/ \E w \in Waiters : Cancelled(w)
    \/ ConsumerPops

OutsideInboundAtRest ==
    SvgAtRest /\ IdAtRest /\ BusAtRest /\ RunAtRest /\ LabelAtRest
    /\ ServerAtRest

InitInbound == VoiceAtRest /\ WaitAtRest /\ OutsideInboundAtRest
SpecInbound == InitInbound /\ [][NextInbound]_vars

(***************************************************************************)
(* server/main.py: internal_event, _agent_status_stream_loop,              *)
(* websocket_poke and websocket_spawn, with event_bus.broadcast.           *)
(*   A coroutine runs without interruption up to an await that suspends.   *)
(*   await ws.send_text(...) hands the text to the connection and may      *)
(*   then suspend: the text is received when the send begins, other        *)
(*   coroutines run before the send returns.  A body is its agent_id       *)
(*   with the number of the request that posted it.  list(_clients) and    *)
(*   list(_agent_state_store.items()) are taken in ascending order.        *)
(***************************************************************************)
outside_server ==
    <<svg_vars, id_vars, run_vars, voice_vars, label_vars, wait_vars, ws_state,
      bc_pc, bc_clients, bc_i, bc_sent, bc_failed, bc_at_start, bc_unregistered,
      bc_count>>

Conns == 1..NumConns
Posts == 1..MaxPosts

\* agent_id values of a JSON body
IntId(v) == [t |-> "int", v |-> v]
BoolId(b) == [t |-> "bool", v |-> IF b THEN 1 ELSE 0]
OtherId(t) == [t |-> t, v |-> 0]

AgentIdValues ==
    { IntId(1), IntId(9), IntId(0), IntId(10), BoolId(TRUE), BoolId(FALSE),
      OtherId("str"), OtherId("float"), OtherId("missing") }

\* line 213: isinstance(agent_id, int); bool is a subclass of int
isinstance_int(a) == a.t \in {"int", "bool"}

\* line 213: isinstance(agent_id, int) and 1 <= agent_id <= 9
is_agent_id(a) == isinstance_int(a) /\ 1 <= a.v /\ a.v <= 9

\* line 214: _agent_state_store[agent_id] = dict(body); True == 1 as a key
store_put(store, body) ==
    IF is_agent_id(body.agent_id)
    THEN [k \in DOMAIN store \cup {body.agent_id.v} |->
            IF k = body.agent_id.v THEN body ELSE store[k]]
    ELSE store

RECURSIVE Ascending(_)
Ascending(S) ==
    IF S = {} THEN <<>>
    ELSE <<CHOOSE x \in S : \A y \in S : x <= y>>
             \o Ascending(S \ {CHOOSE x \in S : \A y \in S : x <= y})

\* lines 68, 281: list(_agent_state_store.items()), the bodies
Items(store) ==
    [i \in 1..Cardinality(DOMAIN store) |-> store[Ascending(DOMAIN store)[i]]]

\* the handler of the websocket has not ended
Connected(h) == conn_pc[h] \in {"snapshot", "running"}

\* event_bus.py lines 55-59: await ws.send_text(payload) begins; a send on
\* a connection whose handler has ended raises and is passed over
deliver(h, body) ==
    received' = IF Connected(h)
                THEN [received EXCEPT ![h] = Append(@, body)]
                ELSE received

\* lines 281-285: the send of the first of the items begins, or raises an
\* Exception that ends the loop; with no item the handler goes on to line 287
snapshot_from(h, items) ==
    IF items = <<>>
    THEN /\ conn_pc' = [conn_pc EXCEPT ![h] = "running"]
         /\ conn_snap' = [conn_snap EXCEPT ![h] = <<>>]
         /\ UNCHANGED received
    ELSE \E ok \in BOOLEAN :
           IF ok
           THEN /\ received' = [received EXCEPT ![h] = Append(@, Head(items))]
                /\ conn_snap' = [conn_snap EXCEPT ![h] = items]
                /\ conn_pc' = [conn_pc EXCEPT ![h] = "snapshot"]
           ELSE /\ conn_pc' = [conn_pc EXCEPT ![h] = "running"]
                /\ conn_snap' = [conn_snap EXCEPT ![h] = <<>>]
                /\ UNCHANGED received

\* lines 157-159: accept, count, register, then the receive loop
ConnectPoke(h) ==
    /\ conn_pc[h] = "none"
    /\ conn_kind' = [conn_kind EXCEPT ![h] = "poke"]
    /\ ws_poke_connections' = ws_poke_connections + 1
    /\ clients' = clients \cup {h}
    /\ conn_pc' = [conn_pc EXCEPT ![h] = "running"]
    /\ UNCHANGED <<agent_state_store, posted, ws_spawn_connections, conn_snap,
                   received, post_pc, post_body, post_list, post_i, st_pc,
                   st_items, st_list, st_ticks>>
    /\ UNCHANGED outside_server

\* lines 277-283: accept, count, register, copy the store, begin the snapshot
ConnectSpawn(h) ==
    /\ conn_pc[h] = "none"
    /\ conn_kind' = [conn_kind EXCEPT ![h] = "spawn"]
    /\ ws_spawn_connections' = ws_spawn_connections + 1
    /\ clients' = clients \cup {h}
    /\ snapshot_from(h, Items(agent_state_store))
    /\ UNCHANGED <<agent_state_store, posted, ws_poke_connections, post_pc,
                   post_body, post_list, post_i, st_pc, st_items, st_list,
                   st_ticks>>
    /\ UNCHANGED outside_server

\* lines 281-285: a send of the snapshot returns, the next one begins
SnapshotSend(h) ==
    /\ conn_pc[h] = "snapshot"
    /\ snapshot_from(h, Tail(conn_snap[h]))
    /\ UNCHANGED <<agent_state_store, posted, ws_spawn_connections,
                   ws_poke_connections, conn_kind, clients, post_pc, post_body,
                   post_list, post_i, st_pc, st_items, st_list, st_ticks>>
    /\ UNCHANGED outside_server

\* lines 281-285: the handler is cancelled while a send of the snapshot is
\* suspended: CancelledError is no Exception and the try of line 287 has
\* not begun, so nothing of lines 292-299 runs
SnapshotCancelled(h) ==
    /\ conn_pc[h] = "snapshot"
    /\ conn_pc' = [conn_pc EXCEPT ![h] = "ended"]
    /\ UNCHANGED <<agent_state_store, posted, ws_spawn_connections,
                   ws_poke_connections, conn_kind, conn_snap, received, clients,
                   post_pc, post_body, post_list, post_i, st_pc, st_items,
                   st_list, st_ticks>>
    /\ UNCHANGED outside_server

\* lines 185-195 and 290-299: the receive loop ends by a disconnect, an
\* error or a cancellation: finally decrements the counter and unregisters
HandlerEnds(h) ==
    /\ conn_pc[h] = "running"
    /\ conn_pc' = [conn_pc EXCEPT ![h] = "ended"]
    /\ clients' = clients \ {h}
    /\ IF conn_kind[h] = "spawn"
       THEN /\ ws_spawn_connections' = PyMax(0, ws_spawn_connections - 1)
            /\ UNCHANGED ws_poke_connections
       ELSE /\ ws_poke_connections' = PyMax(0, ws_poke_connections - 1)
            /\ UNCHANGED ws_spawn_connections
    /\ UNCHANGED <<agent_state_store, posted, conn_kind, conn_snap, received,
                   post_pc, post_body, post_list, post_i, st_pc, st_items,
                   st_list, st_ticks>>
    /\ UNCHANGED outside_server

\* lines 211-216 with event_bus.py lines 51-56: the body is stored if its
\* agent_id qualifies; its broadcast copies the registry and begins the
\* first send.  The requests are numbered in the order of arrival.
internal_event(q, a) ==
    LET body == [agent_id |-> a, n |-> Len(posted) + 1] IN
    /\ post_pc[q] = "idle"
    /\ \A r \in Posts : r < q => post_pc[r] # "idle"
    /\ posted' = Append(posted, body)
    /\ post_body' = [post_body EXCEPT ![q] = body]
    /\ agent_state_store' = store_put(agent_state_store, body)
    /\ post_list' = [post_list EXCEPT ![q] = Ascending(clients)]
    /\ IF clients = {}
       THEN /\ post_pc' = [post_pc EXCEPT ![q] = "done"]
            /\ UNCHANGED <<post_i, received>>
       ELSE /\ post_pc' = [post_pc EXCEPT ![q] = "sending"]
            /\ post_i' = [post_i EXCEPT ![q] = 1]
            /\ deliver(Ascending(clients)[1], body)
    /\ UNCHANGED <<ws_spawn_connections, ws_poke_connections, conn_kind, conn_pc,
                   conn_snap, clients, st_pc, st_items, st_list, st_ticks>>
    /\ UNCHANGED outside_server

\* event_bus.py lines 54-59 and main.py line 217: a send of the request's
\* broadcast returns, the next one begins or the request is answered
PostSend(q) ==
    /\ post_pc[q] = "sending"
    /\ IF post_i[q] = Len(post_list[q])
       THEN /\ post_pc' = [post_pc EXCEPT ![q] = "done"]
            /\ UNCHANGED <<post_i, received>>
       ELSE /\ post_i' = [post_i EXCEPT ![q] = @ + 1]
            /\ deliver(post_list[q][post_i[q] + 1], post_body[q])
            /\ UNCHANGED post_pc
    /\ UNCHANGED <<agent_state_store, posted, ws_spawn_connections,
                   ws_poke_connections, conn_kind, conn_pc, conn_snap, clients,
                   post_body, post_list, st_pc, st_items, st_list, st_ticks>>
    /\ UNCHANGED outside_server

\* lines 68-70 with event_bus.py lines 51-56: the broadcast of the first
\* of the items copies the registry and begins its first send; with no item
\* left or no client the loop is back at its sleep without suspending
status_from(items) ==
    IF items = <<>> \/ clients = {}
    THEN /\ st_pc' = "sleeping"
         /\ st_items' = <<>>
         /\ st_list' = <<>>
         /\ UNCHANGED received
    ELSE /\ st_pc' = "sending"
         /\ st_items' = items
         /\ st_list' = Ascending(clients)
         /\ deliver(Ascending(clients)[1], Head(items))

\* lines 67-68: the sleep returns and the loop copies the store
StatusTick ==
    /\ st_pc = "sleeping"
    /\ st_ticks < MaxTicks
    /\ st_ticks' = st_ticks + 1
    /\ status_from(Items(agent_state_store))
    /\ UNCHANGED <<agent_state_store, posted, ws_spawn_connections,
                   ws_poke_connections, conn_kind, conn_pc, conn_snap, clients,
                   post_pc, post_body, post_list, post_i>>
    /\ UNCHANGED outside_server

\* lines 68-72 with event_bus.py lines 54-59: a send of the loop's
\* broadcast returns, the next one begins
StatusSend ==
    /\ st_pc = "sending"
    /\ IF Len(st_list) = 1
       THEN status_from(Tail(st_items))
       ELSE /\ st_list' = Tail(st_list)
            /\ deliver(st_list[2], Head(st_items))
            /\ UNCHANGED <<st_pc, st_items>>
    /\ UNCHANGED <<agent_state_store, posted, ws_spawn_connections,
                   ws_poke_connections, conn_kind, conn_pc, conn_snap, clients,
                   post_pc, post_body, post_list, post_i, st_ticks>>
    /\ UNCHANGED outside_server

OutsideServerAtRest ==
    SvgAtRest /\ IdAtRest /\ RunAtRest /\ VoiceAtRest /\ LabelAtRest
    /\ WaitAtRest

InitServer == ServerAtRest /\ BusAtRest /\ OutsideServerAtRest

\* requests with any agent_id, clients of /ws/poke
NextStore ==
    \/ \E h \in Conns : ConnectPoke(h)
    \/ \E q \in Posts : \E a \in AgentIdValues : internal_event(q, a)
    \/ \E q \in Posts : PostSend(q)

SpecStore == InitServer /\ [][NextStore]_vars

\* the states of agents 1 and 9, clients of both kinds, the status loop
NextOrder ==
    \/ \E h \in Conns : ConnectPoke(h)
    \/ \E h \in Conns : ConnectSpawn(h)
    \/ \E h \in Conns : SnapshotSend(h)
    \/ \E q \in Posts : \E a \in {IntId(1), IntId(9)} : internal_event(q, a)
    \/ \E q \in Posts : PostSend(q)
    \/ StatusTick
    \/ StatusSend

SpecOrder == InitServer /\ [][NextOrder]_vars

\* handlers that come and go
NextConns ==
    \/ \E h \in Conns : ConnectPoke(h)
    \/ \E h \in Conns : ConnectSpawn(h)
    \/ \E h \in Conns : SnapshotSend(h)
    \/ \E h \in Conns : SnapshotCancelled(h)
    \/ \E h \in Conns : HandlerEnds(h)
    \/ \E q \in Posts : \E a \in {IntId(1), IntId(9)} : internal_event(q, a)
    \/ \E q \in Posts : PostSend(q)

SpecConns == InitServer /\ [][NextConns]_vars

(***************************************************************************)
(* server/repo_to_png/mermaid_to_png.py: _sanitize_mermaid_node_labels.    *)
(*   A text is a sequence of characters.  "a" stands for the characters    *)
(*   that are neither special nor white space, "(" for the special         *)
(*   characters other than the brackets.                                   *)
(***************************************************************************)
OutsideLabelAtRest ==
    SvgAtRest /\ IdAtRest /\ BusAtRest /\ RunAtRest /\ VoiceAtRest
    /\ WaitAtRest /\ ServerAtRest

Chars == {"a", " ", "(", "[", "]", "\"", "\n"}

\* line 35: _MERMAID_LABEL_SPECIAL
MERMAID_LABEL_SPECIAL == {"(", ")", "[", "]", "/", "\\", ";", ",", ":"}

Texts(n) == UNION {[1..k -> Chars] : k \in 0..n}

\* line 57: the content has a special character or a newline
needs_quotes(content) ==
    \E i \in 1..Len(content) :
        content[i] \in MERMAID_LABEL_SPECIAL \/ content[i] = "\n"

\* line 60: newlines become spaces
newlines_to_spaces(content) ==
    [i \in 1..Len(content) |-> IF content[i] = "\n" THEN " " ELSE content[i]]

\* line 61, re.sub(r"  +", " ", content): a run of spaces becomes one space
RECURSIVE collapse_spaces(_)
collapse_spaces(content) ==
    IF Len(content) < 2 THEN content
    ELSE IF content[1] = " " /\ content[2] = " "
         THEN collapse_spaces(Tail(content))
         ELSE <<content[1]>> \o collapse_spaces(Tail(content))

\* line 61, .strip(): the white space at both ends is removed
RECURSIVE strip(_)
strip(content) ==
    IF content = <<>> THEN content
    ELSE IF Head(content) = " " THEN strip(Tail(content))
    ELSE IF content[Len(content)] = " "
         THEN strip(SubSeq(content, 1, Len(content) - 1))
         ELSE content

\* line 63: double quotes become apostrophes
quotes_to_apostrophes(content) ==
    [i \in 1..Len(content) |-> IF content[i] = "\"" THEN "'" ELSE content[i]]

quoted(content) == <<"[", "\"">> \o content \o <<"\"", "]">>

\* lines 60-63
normalized(content) ==
    quotes_to_apostrophes(strip(collapse_spaces(newlines_to_spaces(content))))

\* lines 53-64: repl, on a match with the given content
repl(content) ==
    IF content[1] = "\"" \/ content[1] = "["
    THEN <<"[">> \o content \o <<"]">>
    ELSE IF ~needs_quotes(content)
    THEN <<"[">> \o content \o <<"]">>
    ELSE quoted(normalized(content))

\* the first "]" of the text at or after position i, 0 if there is none
first_close(text, i) ==
    IF \E j \in i..Len(text) : text[j] = "]"
    THEN CHOOSE j \in i..Len(text) :
             /\ text[j] = "]"
             /\ \A k \in i..(j - 1) : text[k] # "]"
    ELSE 0

\* line 65, re.sub(r'\[([^\]]+)\]', repl, text) from position i on: the leftmost
\* match is replaced and the search goes on behind it
RECURSIVE sub_from(_, _)
sub_at(text, i, close) ==
    IF text[i] = "[" /\ close > i + 1
    THEN repl(SubSeq(text, i + 1, close - 1)) \o sub_from(text, close + 1)
    ELSE <<text[i]>> \o sub_from(text, i + 1)

sub_from(text, i) ==
    IF i > Len(text) THEN <<>> ELSE sub_at(text, i, first_close(text, i + 1))

\* lines 47-65
sanitize_mermaid_node_labels(text) == sub_from(text, 1)

Sanitize ==
    /\ sanitize_pass = 0
    /\ sanitized' = sanitize_mermaid_node_labels(mermaid_code)
    /\ sanitize_pass' = 1
    /\ UNCHANGED <<mermaid_code, resanitized>>
    /\ UNCHANGED outside_label

SanitizeAgain ==
    /\ sanitize_pass = 1
    /\ resanitized' = sanitize_mermaid_node_labels(sanitized)
    /\ sanitize_pass' = 2
    /\ UNCHANGED <<mermaid_code, sanitized>>
    /\ UNCHANGED outside_label

NextLabel == Sanitize \/ SanitizeAgain

InitLabel ==
    /\ mermaid_code \in Texts(MaxLen)
    /\ sanitized = <<>>
    /\ resanitized = <<>>
    /\ sanitize_pass = 0
    /\ OutsideLabelAtRest

SpecLabel == InitLabel /\ [][NextLabel]_vars

(***************************************************************************)
(* Inputs: geometry                                                        *)
(*   svg > g(T1) > g.node#a(T2) > rect   and   svg > g.node#b > rect       *)
(***************************************************************************)
VB(vx, vy, vw, vh) ==
    [vb |-> ViewBox(<<Num(vx), Num(vy), Num(vw), Num(vh)>>),
     w |-> AbsentTok, h |-> AbsentTok]

\* the root's viewBox, width and height for a target of W x H
GeomViews(W, H) ==
    { VB(0, 0, W, H), VB(0, 0, 0, H), VB(0, 0, W, 0), VB(0, 0, 0, 0),
      VB(1, -1, W, H), VB(0, 1, MaxDim, MaxCoord + 1), VB(-1, 0, -2, -1),
      [vb |-> ViewBox(<<Num(0), Num(0), Num(2)>>), w |-> Num(0), h |-> Num(0)],
      [vb |-> ViewBox(<<Num(0), Num(0), Junk, Num(2)>>),
       w |-> AbsentTok, h |-> AbsentTok],
      [vb |-> NoViewBox, w |-> AbsentTok, h |-> AbsentTok],
      [vb |-> NoViewBox, w |-> Num(0), h |-> Num(2)],
      [vb |-> NoViewBox, w |-> Num(MaxDim), h |-> Num(0)],
      [vb |-> NoViewBox, w |-> Junk, h |-> Num(2)] }

\* <<root transform, T1, T2>>
GeomTransforms ==
    { <<<<>>, <<>>, <<>>>>,
      <<<<>>, <<Translate(MaxDim, 0)>>, <<Translate(1, 1)>>>>,
      <<<<Translate1(-1)>>, <<Rotate(45), Matrix(2, 0, 0, 2, -4, 1)>>,
        <<Translate(0, MaxDim + 3)>>>> }

GeomRects ==
    { Rect(Num(x), Num(MaxCoord - x), Num(w), Num(1 - w)) :
        x \in Coords, w \in 0..1 }

GeomDoc(v, t, r) ==
    Svg(v.vb, v.w, v.h, t[1],
        << G(<<>>, t[2], <<>>, << G(<<"node">>, t[3], <<"a">>, <<r>>) >>),
           G(<<"node">>, <<>>, <<"b">>, <<r>>) >>)

GeomInputsFor(W, H) ==
    { Input(GeomDoc(v, t, r), W, H) :
        v \in GeomViews(W, H), t \in GeomTransforms, r \in GeomRects }

\* a node with local centre (10,10) in translate(5,5) in translate(100,0)
NestedExample ==
    Svg(VB(0, 0, 200, 100).vb, AbsentTok, AbsentTok, <<>>,
        << G(<<>>, <<Translate(100, 0)>>, <<>>,
             << G(<<>>, <<Translate(5, 5)>>, <<>>,
                  << G(<<"node">>, <<>>, <<"n">>,
                       <<Rect(Num(5), Num(5), Num(10), Num(10))>>) >>) >>) >>)

GeomInputs ==
    UNION { GeomInputsFor(W, H) : W \in Dims, H \in {1, MaxDim} }
    \cup { Input(NestedExample, MaxDim, MaxDim) }

(***************************************************************************)
(* Inputs: tree shapes                                                     *)
(***************************************************************************)
UnitView == ViewBox(<<Num(0), Num(0), Num(MaxDim), Num(MaxDim)>>)

Classes ==
    { <<>>, <<"node", "default">>, <<"cluster", "node">>, <<"clusterRow">>,
      <<"nodes">> }

Shapes ==
    { Rect(Num(0), Num(1), Num(MaxCoord), Num(MaxCoord)),
      Rect(Junk, Num(0), Num(1), Num(1)),
      Poly("polygon", <<Num(0), Num(0), Num(MaxCoord), Num(0), Num(1), Num(MaxCoord)>>),
      Poly("polygon", <<Num(0), Junk, Num(1), Num(1)>>),
      Poly("polyline", <<Num(0), Num(0), Num(1)>>),
      Path(Num(1), Num(0)),
      PathNoMove,
      Circle }

TreeKids ==
    { << G(c, <<>>, <<>>, <<s>>) >> : c \in Classes, s \in Shapes }
    \cup
    { << G(c, <<>>, <<>>, <<s, G(c2, <<>>, <<>>, <<s2>>)>>) >> :
         c \in Classes, s \in Shapes, c2 \in Classes, s2 \in Shapes }
    \cup
    { << G(c, <<>>, <<>>, <<s>>), G(c2, <<>>, <<>>, <<s2>>) >> :
         c \in Classes, s \in Shapes, c2 \in Classes,
         s2 \in {Rect(Num(1), Num(0), Num(1), Num(1)),
                 Poly("polygon", <<Num(0), Junk, Num(1), Num(1)>>), Circle} }

    \cup
    { << G(c, <<>>, <<>>, <<s, G(c2, <<>>, <<>>, <<s>>)>>), G(c2, <<>>, <<>>, <<s>>) >> :
         c \in Classes, c2 \in Classes,
         s \in {Rect(Num(0), Num(1), Num(MaxCoord), Num(MaxCoord)), Circle} }

TreeInputs ==
    { Input(Svg(UnitView, AbsentTok, AbsentTok, <<>>, kids), MaxDim, MaxDim) :
        kids \in TreeKids }

(***************************************************************************)
(* Inputs: ids and labels                                                  *)
(***************************************************************************)
Ids ==
    { <<>>,
      <<" ">>,
      <<"A">>,
      <<"7">>,
      <<" ", "A", " ">>,
      <<"f", "-", "A", "-", "3">>,
      <<"f", "-", "A">>,
      <<"f", "-", "g", "-", "A", "-", "1", "2">>,
      <<"A", "-">>,
      <<"-", "3">>,
      <<"A", "-", "3", "-", "4">> }

TextKids ==
    { <<>>,
      << Text(<<" ", "A", " ", "B", "\n">>, <<>>) >>,
      << Text(<<"\n">>, <<TSpan(<<"X">>)>>) >>,
      << Text(<<>>, <<TSpan(<<"X">>)>>) >>,
      << Text(<<" ">>, <<TSpan(<<>>), TSpan(<<"Y", " ">>)>>) >>,
      << Text(<<" ">>, <<TSpan(<<" ">>), TSpan(<<"Y">>)>>), Text(<<"Z">>, <<>>) >>,
      << Text(<<" ">>, <<>>), Text(<<"Z">>, <<>>) >>,
      << G(<<>>, <<>>, <<>>, <<Text(<<"N">>, <<>>)>>), Text(<<"Z">>, <<>>) >>,
      << Text(<<"A">>, <<>>), Text(<<"B">>, <<>>) >> }

TextBefore ==
    { <<>>,
      << G(<<"cluster">>, <<>>, <<"p">>, <<Rect(Num(0), Num(0), Num(1), Num(1))>>) >> }

TextInputs ==
    { Input(Svg(UnitView, AbsentTok, AbsentTok, <<>>,
                pre \o << G(<<"node">>, <<>>, id,
                            <<Rect(Num(0), Num(0), Num(MaxCoord), Num(1))>> \o tk) >>),
            MaxDim, MaxDim) :
        pre \in TextBefore, id \in Ids, tk \in TextKids }

(***************************************************************************)
(* Inputs: transform attributes                                            *)
(*   svg > g.node#a(T) > rect, T a list of transform functions             *)
(***************************************************************************)
TransformFunctions ==
    { Translate(e, f) : e \in Coords, f \in Coords }
    \cup { Translate1(e) : e \in Coords }
    \cup { TranslateOf(<<Dots>>), TranslateOf(<<Num(1), Dots>>),
           TranslateOf(<<Junk>>), TranslateOf(<<Exp(1), Num(1)>>),
           TranslateOf(<<Num(1), Num(1), Num(1)>>) }
    \cup { MatrixOf(<<a, Num(0), Num(0), d, Num(e), Num(f)>>) :
             a \in {Num(1), Num(2), Exp(1)}, d \in {Num(1), Num(-1)},
             e \in Coords, f \in Coords }
    \cup { MatrixOf(<<Num(1), Num(0), Num(0), Num(1), Num(1), Dots>>),
           MatrixOf(<<Num(1), Num(0), Num(0), Num(1), Num(1)>>),
           MatrixOf(<<Num(1), Junk, Num(0), Num(1), Num(1), Num(1)>>) }
    \cup { Rotate(45), Scale(2) }

TransformAttributes ==
    { <<>>, <<Rotate(45), Scale(2)>> }
    \cup { <<f>> : f \in TransformFunctions }
    \cup { <<Rotate(45), f>> : f \in TransformFunctions }
    \cup { <<f, Translate(1, 0)>> : f \in TransformFunctions }

TransformInputs ==
    { Input(Svg(UnitView, AbsentTok, AbsentTok, <<>>,
                << G(<<"node">>, t, <<"a">>,
                     <<Rect(Num(0), Num(0), Num(0), Num(0))>>) >>),
            MaxDim, MaxDim) :
        t \in TransformAttributes }

(***************************************************************************)
(* Inputs: shapes nested in groups                                         *)
(*   svg > g.node#a > two children, each a shape inside 0..MaxNest groups  *)
(***************************************************************************)
RECURSIVE Wrap(_, _)
\* the shape inside d groups without class or transform
Wrap(d, shape) ==
    IF d = 0 THEN shape ELSE G(<<>>, <<>>, <<>>, <<Wrap(d - 1, shape)>>)

NestFirst ==
    { Rect(Num(0), Num(0), Num(2), Num(2)),
      Poly("polygon", <<Num(0), Num(0), Num(4), Num(0), Num(4), Num(2)>>),
      Circle }

NestSecond == { Rect(Num(1), Num(1), Num(2), Num(2)), Circle }

NestInputs ==
    { Input(Svg(UnitView, AbsentTok, AbsentTok, <<>>,
                << G(<<"node">>, <<>>, <<"a">>, <<Wrap(d1, s1), Wrap(d2, s2)>>) >>),
            MaxDim, MaxDim) :
        d1 \in 0..MaxNest, s1 \in NestFirst, d2 \in 0..MaxNest, s2 \in NestSecond }

(***************************************************************************)
(* Specifications                                                          *)
(***************************************************************************)
InitGeom == InitFrom(GeomInputs)
InitTree == InitFrom(TreeInputs)
InitText == InitFrom(TextInputs)
InitTransform == InitFrom(TransformInputs)
InitNest == InitFrom(NestInputs)
SpecGeom == InitGeom /\ [][Next]_vars
SpecTree == InitTree /\ [][Next]_vars
SpecText == InitText /\ [][Next]_vars
SpecTransform == InitTransform /\ [][Next]_vars
SpecNest == InitNest /\ [][Next]_vars

(***************************************************************************)
(* Paths: the element at a path, the paths of a document                   *)
(***************************************************************************)
RECURSIVE NodeAt(_, _)
NodeAt(el, path) ==
    IF path = <<>> THEN el ELSE NodeAt(el.kids[Head(path)], Tail(path))

RECURSIVE PathsOf(_)
PathsOf(el) ==
    {<<>>} \cup UNION { { <<i>> \o p : p \in PathsOf(el.kids[i]) } :
                          i \in 1..Len(el.kids) }

IdentityView ==
    svg_input.viewBox =
        ViewBox(<<Num(0), Num(0), Num(png_width), Num(png_height)>>)

(***************************************************************************)
(* C1: every ComponentPosition the call returns has 0 <= x <= W - 1 and    *)
(* 0 <= y <= H - 1, whatever the boxes, transforms and viewBox are.        *)
(***************************************************************************)
C1_PixelsInRange ==
    \A i \in 1..Len(result) :
        /\ 0 <= result[i].x /\ result[i].x <= png_width - 1
        /\ 0 <= result[i].y /\ result[i].y <= png_height - 1

\* a returned record whose x lies left of the image and whose y lies below it
C1_Witness ==
    /\ pc = "returned"
    /\ IdentityView
    /\ \E i \in 1..Len(result) :
          /\ trace[i].sx2 < 0 /\ result[i].x = 0
          /\ trace[i].sy2 > 2 * png_height /\ result[i].y = png_height - 1

(***************************************************************************)
(* The groups of the input that are classified as node or cluster and for  *)
(* which a bounding box is found                                           *)
(***************************************************************************)
Classified(el) ==
    /\ el.tag = "g"
    /\ \E i \in 1..Len(el.class) : el.class[i] \in {"node", "cluster", "clusterRow"}

BoxedGroups ==
    { p \in PathsOf(svg_input) :
        /\ Classified(NodeAt(svg_input, p))
        /\ get_group_bbox(NodeAt(svg_input, p)).k = "ok" }

EmittedAt(p) == { i \in 1..Len(trace) : trace[i].path = p }

(***************************************************************************)
(* C2: the call emits exactly one ComponentPosition for each g element     *)
(* (at any depth) whose class list has node, cluster or clusterRow and for *)
(* which a bounding box is found, and nothing for any other element.       *)
(***************************************************************************)
C2_OneRecordPerBoxedGroup ==
    pc # "ready" =>
        /\ Len(result) = Len(trace)
        /\ \A p \in BoxedGroups : Cardinality(EmittedAt(p)) = 1
        /\ \A i \in 1..Len(trace) : trace[i].path \in BoxedGroups

(***************************************************************************)
(* C5: the returned records are in depth-first document order of their     *)
(* groups, and a group that is emitted does not hide the groups below it.  *)
(***************************************************************************)
IsProperPrefix(p, q) == Len(p) < Len(q) /\ SubSeq(q, 1, Len(p)) = p

\* p comes before q in pre-order
DocumentBefore(p, q) ==
    \/ IsProperPrefix(p, q)
    \/ \E k \in 1..Len(p) :
          /\ k <= Len(q)
          /\ SubSeq(p, 1, k - 1) = SubSeq(q, 1, k - 1)
          /\ p[k] < q[k]

C5_DocumentOrder ==
    /\ \A i \in 1..Len(trace) : \A j \in (i + 1)..Len(trace) :
          DocumentBefore(trace[i].path, trace[j].path)
    /\ pc = "returned" =>
          \A i \in 1..Len(trace) : \A q \in BoxedGroups :
              IsProperPrefix(trace[i].path, q) => EmittedAt(q) # {}

\* a cluster, a node inside it and a later sibling, all three returned
C5_Witness ==
    /\ pc = "returned"
    /\ Len(result) = 3
    /\ IsProperPrefix(trace[1].path, trace[2].path)
    /\ ~IsProperPrefix(trace[1].path, trace[3].path)

(***************************************************************************)
(* C3: the document-root coordinate of an emitted group is its local       *)
(* bounding-box centre plus the sum of the translations of the group and   *)
(* of every ancestor on its path from the root; a transform that is not on *)
(* that path does not enter.  Coordinates are doubled.                     *)
(***************************************************************************)
RECURSIVE PathTranslation(_, _)
\* the sum of the translations of the elements at the prefixes 0..k of path p
PathTranslation(p, k) ==
    IF k < 0 THEN <<0, 0>>
    ELSE LET t == parse_transform(NodeAt(svg_input, SubSeq(p, 1, k)).transform).v
             r == PathTranslation(p, k - 1)
         IN  <<t[1] + r[1], t[2] + r[2]>>

C3_AdditiveTranslation ==
    pc = "returned" =>
        \A i \in 1..Len(trace) :
            LET p == trace[i].path
                b == get_group_bbox(NodeAt(svg_input, p)).v
                t == PathTranslation(p, Len(p))
            IN  /\ trace[i].sx2 = 2 * b[1] + b[3] + 2 * t[1]
                /\ trace[i].sy2 = 2 * b[2] + b[4] + 2 * t[2]

\* the node at local (10,10) in translate(5,5) in translate(100,0): (115,15)
C3_Witness ==
    /\ pc = "returned"
    /\ svg_input = NestedExample
    /\ Len(trace) = 1
    /\ trace[1].sx2 = 230 /\ trace[1].sy2 = 30

(***************************************************************************)
(* C4: with a viewBox (vx, vy, vw, vh), vw and vh non-zero, the pixel is   *)
(* px = round((sx - vx) / vw * W), py = round((sy - vy) / vh * H), then    *)
(* clamped.                                                                *)
(***************************************************************************)
\* round(n / d), halves to even as Python's round does
RoundDiv(n, d) ==
    LET nn == IF d < 0 THEN -n ELSE n
        dd == Abs(d)
        q == nn \div dd
        r == nn - q * dd
    IN  IF 2 * r < dd THEN q
        ELSE IF 2 * r > dd THEN q + 1
        ELSE IF q % 2 = 0 THEN q ELSE q + 1

Pinned(p, size) == IF p < 0 THEN 0 ELSE IF p > size - 1 THEN size - 1 ELSE p

C4_RoundedMapping ==
    (/\ pc = "returned"
     /\ svg_input.viewBox.set
     /\ Len(svg_input.viewBox.parts) = 4) =>
        LET vb == svg_input.viewBox.parts
        IN  (vb[3].v # 0 /\ vb[4].v # 0) =>
                \A i \in 1..Len(result) :
                    /\ result[i].x =
                         Pinned(RoundDiv((trace[i].sx2 - 2 * vb[1].v) * png_width,
                                         2 * vb[3].v), png_width)
                    /\ result[i].y =
                         Pinned(RoundDiv((trace[i].sy2 - 2 * vb[2].v) * png_height,
                                         2 * vb[4].v), png_height)

C7_ShapesNeverRaise == pc # "raised"

(***************************************************************************)
(* C10: when the view width is zero every emitted x is 0, when the view    *)
(* height is zero every emitted y is 0; the other coordinate is computed   *)
(* normally and no division by zero occurs.                                *)
(***************************************************************************)
ViewWidthZero ==
    \/ /\ svg_input.viewBox.set
       /\ Len(svg_input.viewBox.parts) = 4
       /\ svg_input.viewBox.parts[3] = Num(0)
    \/ /\ ~svg_input.viewBox.set
       /\ svg_input.width = Num(0)

ViewHeightZero ==
    \/ /\ svg_input.viewBox.set
       /\ Len(svg_input.viewBox.parts) = 4
       /\ svg_input.viewBox.parts[4] = Num(0)
    \/ /\ ~svg_input.viewBox.set
       /\ svg_input.height = Num(0)

NormalX(i) ==
    LET vb == view_box_of(svg_input, png_width, png_height).v
    IN  Pinned(TruncDiv((trace[i].sx2 - 2 * vb[1]) * png_width, 2 * vb[3]), png_width)

NormalY(i) ==
    LET vb == view_box_of(svg_input, png_width, png_height).v
    IN  Pinned(TruncDiv((trace[i].sy2 - 2 * vb[2]) * png_height, 2 * vb[4]), png_height)

C10_ZeroViewSize ==
    /\ exc # "ZeroDivisionError"
    /\ (pc = "returned" /\ ViewWidthZero) =>
          \A i \in 1..Len(result) :
              /\ result[i].x = 0
              /\ ~ViewHeightZero => result[i].y = NormalY(i)
    /\ (pc = "returned" /\ ViewHeightZero) =>
          \A i \in 1..Len(result) :
              /\ result[i].y = 0
              /\ ~ViewWidthZero => result[i].x = NormalX(i)

\* zero width, non-zero height: x is 0 although the group lies to the right,
\* y is a pixel below the top row
C10_Witness ==
    /\ pc = "returned"
    /\ ViewWidthZero /\ ~ViewHeightZero
    /\ \E i \in 1..Len(result) :
          /\ trace[i].sx2 > 0 /\ result[i].x = 0
          /\ result[i].y > 0

(***************************************************************************)
(* C8: the id of a record is the group's id attribute without its trailing *)
(* numeric suffix and without its leading prefix tokens (an id without '-' *)
(* is used as is); without an id it is the label; without id and label it  *)
(* is node_<index>, index being the number of records emitted before it.   *)
(***************************************************************************)
\* the position of the last '-' of s, 0 when there is none
LastDash(s) ==
    IF HasDash(s) THEN Max({ i \in 1..Len(s) : s[i] = "-" }) ELSE 0

AfterLastDash(s) == SubSeq(s, LastDash(s) + 1, Len(s))

WithoutNumericSuffix(s) ==
    IF HasDash(s) /\ IsDigit(AfterLastDash(s))
    THEN SubSeq(s, 1, LastDash(s) - 1)
    ELSE s

C8_RecordId ==
    pc = "returned" =>
        \A i \in 1..Len(result) :
            LET el == NodeAt(svg_input, trace[i].path)
                gid == Strip(el.id)
                text == Strip(get_text_content(el))
            IN  /\ gid # <<>> =>
                     result[i].id = AfterLastDash(WithoutNumericSuffix(gid))
                /\ (gid = <<>> /\ text # <<>>) =>
                     result[i].id = text /\ result[i].id = result[i].label
                /\ (gid = <<>> /\ text = <<>>) =>
                     result[i].id = NodePrefix \o Decimal(i - 1)

\* id "f-A-3" gives "A", and a group without id and text, emitted second,
\* would be node_1: here the group with the prefixed id follows another record
C8_Witness ==
    /\ pc = "returned"
    /\ Len(result) = 2
    /\ NodeAt(svg_input, trace[2].path).id = <<"f", "-", "A", "-", "3">>
    /\ result[2].id = <<"A">>

(***************************************************************************)
(* C9: the label of a record is the trimmed text of the first text element *)
(* of the group's subtree, in depth-first order, that has non-empty direct *)
(* text; when a text element's own text is empty (absent or whitespace     *)
(* only) the text of its sub-span is used instead; when no text is found   *)
(* the label is the record's id.                                           *)
(***************************************************************************)
RECURSIVE ClaimedTextFrom(_, _)
ClaimedTextFrom(elems, i) ==
    IF i > Len(elems) THEN <<>>
    ELSE LET elem == elems[i]
         IN  IF elem.tag = "text"
             THEN IF Strip(elem.text) # <<>> THEN Strip(elem.text)
                  ELSE IF \E j \in 1..Len(elem.kids) : elem.kids[j].text # <<>>
                  THEN LET j == Min({ n \in 1..Len(elem.kids) : elem.kids[n].text # <<>> })
                       IN  Strip(elem.kids[j].text)
                  ELSE ClaimedTextFrom(elems, i + 1)
             ELSE ClaimedTextFrom(elems, i + 1)

C9_RecordLabel ==
    pc = "returned" =>
        \A i \in 1..Len(result) :
            LET text == ClaimedTextFrom(Iter(NodeAt(svg_input, trace[i].path)), 1)
            IN  result[i].label = IF text # <<>> THEN text ELSE result[i].id

(***************************************************************************)
(* C11: a group whose transform is matrix(a,b,c,d,e,f), all six being      *)
(* numbers, is placed exactly where the same group with translate(e,f) is  *)
(* placed: the call returns, and its records and their document            *)
(* coordinates are those of the document with the translate form.          *)
(***************************************************************************)
IsNumber(tok) == Float(tok).k = "ok"

\* the transform attribute of the document's first group
GroupTransform == svg_input.kids[1].transform

WithTransform(t) ==
    svg_to_component_positions([svg_input EXCEPT !.kids[1].transform = t],
                               png_width, png_height)

IsMatrixOfNumbers(t) ==
    /\ Len(t) = 1
    /\ t[1].fn = "matrix"
    /\ Len(t[1].args) = 6
    /\ \A i \in 1..6 : IsNumber(t[1].args[i])

C11_MatrixIsTranslate ==
    (pc \in {"returned", "raised"} /\ IsMatrixOfNumbers(GroupTransform))
    => LET m == GroupTransform[1]
           same == WithTransform(<<TranslateOf(<<m.args[5], m.args[6]>>)>>)
       IN  /\ pc = "returned"
           /\ same.k = "ok"
           /\ result = same.out
           /\ trace = same.src

(***************************************************************************)
(* C12: a transform attribute that is absent, empty, unparseable or made   *)
(* only of unrecognised functions contributes (0, 0) and never raises: the *)
(* call returns what it returns for the document without the attribute.    *)
(***************************************************************************)
\* a translate or matrix function with the right number of numeric arguments
IsTranslation(f) ==
    \/ f.fn = "translate" /\ Len(f.args) \in {1, 2}
                          /\ \A i \in 1..Len(f.args) : IsNumber(f.args[i])
    \/ f.fn = "matrix" /\ Len(f.args) = 6
                       /\ \A i \in 1..6 : IsNumber(f.args[i])

C12_TransformTotal ==
    (/\ pc \in {"returned", "raised"}
     /\ \A i \in 1..Len(GroupTransform) : ~IsTranslation(GroupTransform[i]))
    => /\ pc = "returned"
       /\ result = WithTransform(<<>>).out
       /\ trace = WithTransform(<<>>).src

(***************************************************************************)
(* C13: the first id returned after startup is 1, each later one is       *)
(* (the previously returned id mod 9) + 1, every id is in 1..9, any nine   *)
(* consecutive calls return nine distinct ids, and no two threads are      *)
(* between reading and returning the counter at the same time.             *)
(***************************************************************************)
InCounterSection(t) == id_pc[t] \in {"read", "write", "return"}

C13_NextAgentId ==
    /\ \A i \in 1..Len(id_returned) :
          /\ id_returned[i] \in 1..9
          /\ i = 1 => id_returned[i] = 1
          /\ i > 1 => id_returned[i] = (id_returned[i - 1] % 9) + 1
    /\ \A i \in 1..Len(id_returned) : \A j \in 1..Len(id_returned) :
          (i < j /\ j - i < 9) => id_returned[i] # id_returned[j]
    /\ \A t \in Threads : \A u \in Threads :
          (InCounterSection(t) /\ InCounterSection(u)) => t = u

\* ten calls have returned, the tenth wrapping to 1, while one thread holds
\* the lock and another waits for it
C13_Witness ==
    /\ Len(id_returned) = 10
    /\ id_returned[9] = 9
    /\ id_returned[10] = 1
    /\ \E t \in Threads : \E u \in Threads :
          id_pc[t] = "write" /\ id_pc[u] = "acquire"

(***************************************************************************)
(* C14: broadcast sends to every client registered when the call started   *)
(* and to no other; a failed send does not raise to the caller, does not   *)
(* take the client out of the registry (only its handler's unregister      *)
(* does) and does not keep the event from the remaining clients: when the  *)
(* call returns, every client of the start has had its send, and those     *)
(* still open have received the event.                                     *)
(***************************************************************************)
C14_BestEffortBroadcast ==
    /\ bc_pc # "raised"
    /\ (bc_sent \cup bc_failed) \subseteq bc_at_start
    /\ bc_pc \in {"sending", "returned"} =>
          \A ws \in bc_failed : ws \in clients \/ ws \in bc_unregistered
    /\ bc_pc = "returned" =>
          /\ bc_sent \cup bc_failed = bc_at_start
          /\ \A ws \in bc_at_start : ws_state[ws] = "open" => ws \in bc_sent

\* a broadcast has returned after a send failed for a client that is still
\* registered and a later send of the same call succeeded
C14_Witness ==
    /\ bc_pc = "returned"
    /\ \E i \in 1..Len(bc_clients) : \E j \in 1..Len(bc_clients) :
          /\ i < j
          /\ bc_clients[i] \in bc_failed
          /\ bc_clients[i] \in clients
          /\ bc_clients[j] \in bc_sent

(***************************************************************************)
(* C15: once run_modal_agent or run_fix_sync has created a sandbox, the    *)
(* sandbox is terminated before the call returns or raises, on every exit  *)
(* path; no sandbox is running when no call is in progress.                *)
(***************************************************************************)
SandboxCreated ==
    \E i \in 1..Len(run_log) :
        run_log[i].step = "create" /\ run_log[i].outcome = "ok"

StepOrder == <<"clone", "branch", "agent", "detect", "commit", "push", "pr">>

StepRank(step) == CHOOSE n \in 1..Len(StepOrder) : StepOrder[n] = step

IsOrderedStep(entry) == \E n \in 1..Len(StepOrder) : StepOrder[n] = entry.step

FailureText(step) ==
    CASE step = "clone" -> "Clone failed"
      [] step = "branch" -> "Branch creation failed"
      [] step = "agent" -> "Agent exited"
      [] step = "detect" -> "Agent completed but made no file changes"
      [] step = "commit" -> "Commit failed"
      [] step = "push" -> "Push failed"
      [] OTHER -> "PR creation failed"

C19_StepsInOrder ==
    /\ \A i \in 1..Len(run_log) : \A j \in 1..Len(run_log) :
          (i < j /\ IsOrderedStep(run_log[i]) /\ IsOrderedStep(run_log[j]))
          => /\ StepRank(run_log[i].step) < StepRank(run_log[j].step)
             /\ run_log[i].outcome = "ok"
    /\ run_pc = "done" =>
          \A i \in 1..Len(run_log) :
              (IsOrderedStep(run_log[i]) /\ run_log[i].outcome # "ok")
              => /\ run_result.kind = "return"
                 /\ run_log[i].outcome = "fail"
                    => run_result.text = FailureText(run_log[i].step)

(***************************************************************************)
(* C16: run_record_turn_once starts a turn only when the inbound queue is  *)
(* empty, the TTS loop is not busy and no other turn is in progress;       *)
(* otherwise it returns ok=false with the reason queue_pending, speaking   *)
(* or busy, in that order, and leaves _is_busy and the queue unchanged;    *)
(* when an accepted turn ends, _is_busy is false.                          *)
(***************************************************************************)
TurnAccepted(t) == task_pc[t] = "idle" /\ task_pc'[t] = "record"
TurnRejected(t) == task_pc[t] = "idle" /\ task_pc'[t] = "done"
TurnEnded(t) == InTurn(t) /\ task_pc'[t] = "done"

OtherTurnBusy(t) == \E k \in Tasks \ {t} : InTurn(k)

RejectionReason(t) ==
    IF inbound_queue # <<>> THEN "queue_pending"
    ELSE IF tts_loop_busy THEN "speaking"
    ELSE "busy"

TurnGuard(t) ==
    /\ TurnAccepted(t) =>
          inbound_queue = <<>> /\ ~tts_loop_busy /\ ~OtherTurnBusy(t)
    /\ TurnRejected(t) =>
          /\ inbound_queue # <<>> \/ tts_loop_busy \/ OtherTurnBusy(t)
          /\ task_result'[t] = Result(FALSE, RejectionReason(t))
          /\ UNCHANGED <<is_busy, inbound_queue>>
    /\ TurnEnded(t) => is_busy' = FALSE

C16_TurnGuard == [][\A t \in TurnTasks : TurnGuard(t)]_vars

(***************************************************************************)
(* C17: at most one recorder process runs at a time; a hand_open while a   *)
(* recording is active starts nothing and leaves the recording state       *)
(* unchanged; a hand_close with no active recording makes stop_and_process *)
(* return ok=false, not_recording, with _is_busy untouched; a hand_close   *)
(* with an active recording clears _recording_process and                  *)
(* _recording_audio_path, and the next hand_open starts a fresh recorder.  *)
(***************************************************************************)
HandOpened == hand_count' = hand_count + 1 /\ last_hand'.type = "hand_open"
HandClosed == hand_count' = hand_count + 1 /\ last_hand'.type = "hand_close"

RecordingSteps ==
    /\ (HandOpened /\ recording_process # 0) =>
          UNCHANGED <<recording_process, recording_audio_path, live_recorders,
                      proc_count>>
    /\ (HandClosed /\ recording_process = 0) =>
          /\ task_result'[last_hand'.task] = Result(FALSE, "not_recording")
          /\ UNCHANGED <<is_busy, task_pc, recording_process,
                         recording_audio_path, live_recorders>>
    /\ (HandClosed /\ recording_process # 0) =>
          /\ recording_process' = 0
          /\ recording_audio_path' = 0
          /\ live_recorders' = {}
    /\ (HandOpened /\ recording_process = 0 /\ record_bin) =>
          /\ recording_process' \notin 0..proc_count
          /\ recording_audio_path' # 0
          /\ live_recorders' = {recording_process'}

C17_OneRecorder ==
    /\ [](Cardinality(live_recorders) <= 1)
    /\ [](recording_process = 0 <=> recording_audio_path = 0)
    /\ [][RecordingSteps]_vars

\* hand_open, hand_close, and a hand_open on the other connection while the
\* turn of the first is in progress: the second recorder runs alone
C17_Witness ==
    /\ hand_count = 3
    /\ last_hand.type = "hand_open"
    /\ \E h \in HandlerTasks \ {last_hand.task} : InTurn(h)
    /\ proc_count = 2
    /\ recording_process = 2
    /\ live_recorders = {2}

(***************************************************************************)
(* C18: _sanitize_mermaid_node_labels rewrites every unquoted bracket      *)
(* label [content] whose content has a special character or a newline into *)
(* ["content"] with the newlines replaced by spaces and the double quotes  *)
(* by apostrophes, and leaves every other label and all text outside the   *)
(* brackets unchanged.                                                     *)
(***************************************************************************)
\* the label the statement asks for
stated_label(content) ==
    IF content[1] = "\"" \/ ~needs_quotes(content)
    THEN <<"[">> \o content \o <<"]">>
    ELSE quoted(quotes_to_apostrophes(newlines_to_spaces(content)))

RECURSIVE stated_from(_, _)
stated_at(text, i, close) ==
    IF text[i] = "[" /\ close > i + 1
    THEN stated_label(SubSeq(text, i + 1, close - 1))
             \o stated_from(text, close + 1)
    ELSE <<text[i]>> \o stated_from(text, i + 1)

stated_from(text, i) ==
    IF i > Len(text) THEN <<>> ELSE stated_at(text, i, first_close(text, i + 1))

C18_SanitizeLabels ==
    sanitize_pass >= 1 => sanitized = stated_from(mermaid_code, 1)

(***************************************************************************)
(* C20: the bounding box of a group is the box of its first child, in      *)
(* document order, that yields one: a rect, polygon, polyline or path      *)
(* yields its own box, a child group yields the box of its own first       *)
(* box-yielding direct child and is not searched any deeper; the boxes of  *)
(* later children do not enter.                                            *)
(***************************************************************************)
\* the own box of an element that is not searched
own_box(el) ==
    IF get_rect_bbox(el).k = "ok" THEN get_rect_bbox(el) ELSE get_polygon_bbox(el)

RECURSIVE first_own_box(_, _)
\* the own box of the first direct child from i on that has one
first_own_box(g, i) ==
    IF i > Len(g.kids) THEN None
    ELSE IF own_box(g.kids[i]).k = "ok" THEN own_box(g.kids[i])
    ELSE first_own_box(g, i + 1)

\* what a child yields: its own box, or for a group one level of nesting
child_box(child) ==
    IF own_box(child).k = "ok" THEN own_box(child)
    ELSE IF strip_ns(child) = "g" THEN first_own_box(child, 1)
    ELSE None

RECURSIVE first_child_box(_, _)
first_child_box(g, i) ==
    IF i > Len(g.kids) THEN None
    ELSE IF child_box(g.kids[i]).k = "ok" THEN child_box(g.kids[i])
    ELSE first_child_box(g, i + 1)

BoxAgrees(p, b) ==
    IF b.k = "ok"
    THEN \E i \in 1..Len(trace) :
            /\ trace[i].path = p
            /\ trace[i].sx2 = 2 * b.v[1] + b.v[3]
            /\ trace[i].sy2 = 2 * b.v[2] + b.v[4]
    ELSE EmittedAt(p) = {}

C20_FirstChildBox ==
    pc = "returned" =>
        \A p \in PathsOf(svg_input) :
            Classified(NodeAt(svg_input, p)) =>
                BoxAgrees(p, first_child_box(NodeAt(svg_input, p), 1))

(***************************************************************************)
(* C23: at most one voice turn (run_record_turn_once or stop_and_process)  *)
(* is in progress at any time, and _is_busy is true exactly while a turn   *)
(* is in progress.                                                         *)
(***************************************************************************)
TurnsInProgress == { k \in Tasks : InTurn(k) }

C23_OneTurn ==
    /\ Cardinality(TurnsInProgress) <= 1
    /\ is_busy <=> TurnsInProgress # {}

(***************************************************************************)
(* C24: while _tts_loop_busy is true no turn is in progress (so none has   *)
(* started), and while a turn is in progress the TTS loop does not take a  *)
(* message from the inbound queue.                                         *)
(***************************************************************************)
\* the step is the TTS loop popping the queue
TtsPops ==
    /\ tts_loop_busy'
    /\ Len(inbound_queue') < Len(inbound_queue)
    /\ UNCHANGED task_pc

C24_NoOverlap ==
    /\ [](tts_loop_busy => TurnsInProgress = {})
    /\ [][TurnsInProgress # {} => ~TtsPops]_vars

(***************************************************************************)
(* C22: every message passed to _enqueue_inbound is in exactly one place:  *)
(* returned by one successful _wait_for_inbound call, in _inbound_queue,   *)
(* popped from the queue by a consumer, or on its way to a call that still *)
(* waits; no message is handed to a call that has timed out or been        *)
(* cancelled.                                                              *)
(***************************************************************************)
Abandoned(w) == wait_pc[w] \in {"timed_out", "raised", "cancelled"}

PlacesInQueue(m) == { i \in 1..Len(inbound_queue) : inbound_queue[i] = m }
ReturnedTo(m) == { w \in Waiters : wait_pc[w] = "returned" /\ wait_got[w] = m }
OnItsWay(m) ==
    { i \in 1..Len(scheduled) :
        scheduled[i].msg = m /\ wait_pc[scheduled[i].fut] = "waiting" }

Places(m) ==
    Cardinality(PlacesInQueue(m)) + Cardinality(ReturnedTo(m))
        + Cardinality(OnItsWay(m))
        + (IF m \in tts_popped THEN 1 ELSE 0)
        + (IF enq_msg = m THEN 1 ELSE 0)

C22_NoInboundLost ==
    /\ \A m \in 1..inbound_count : Places(m) = 1
    /\ \A i \in 1..Len(scheduled) : ~Abandoned(scheduled[i].fut)
    /\ \A w \in Waiters : fut_result[w] # 0 => ~Abandoned(w)

(***************************************************************************)
(* C21: after any sequence of requests to /internal/event the store has    *)
(* keys in 1..9 only and holds for each key the most recent body posted    *)
(* with that integer agent_id; a body whose agent_id is missing, not an    *)
(* integer or outside 1..9 leaves the store unchanged; every body, stored  *)
(* or not, is sent to all the clients registered when its broadcast        *)
(* began; no entry is ever removed.                                        *)
(***************************************************************************)
\* the requests whose agent_id is the integer k
PostedWith(k) == { i \in 1..Len(posted) : posted[i].agent_id = IntId(k) }

LastPostedWith(k) == CHOOSE i \in PostedWith(k) : \A j \in PostedWith(k) : j <= i

StoreHoldsLatest ==
    /\ DOMAIN agent_state_store \subseteq 1..9
    /\ \A k \in 1..9 :
          IF PostedWith(k) = {}
          THEN k \notin DOMAIN agent_state_store
          ELSE /\ k \in DOMAIN agent_state_store
               /\ agent_state_store[k] = posted[LastPostedWith(k)]

WasSent(h, body) == \E j \in 1..Len(received[h]) : received[h][j] = body

BroadcastToAll ==
    \A q \in Posts :
        post_pc[q] = "done" =>
            \A i \in 1..Len(post_list[q]) :
                Connected(post_list[q][i]) => WasSent(post_list[q][i], post_body[q])

C21_StoreAndBroadcast ==
    /\ [](StoreHoldsLatest /\ BroadcastToAll)
    /\ [][DOMAIN agent_state_store \subseteq DOMAIN agent_state_store']_vars

(***************************************************************************)
(* C25: a client receives the states of one agent in the order they were   *)
(* posted: after the state of request n it is never sent the state of an   *)
(* earlier request for that agent, by a broadcast, by the snapshot of      *)
(* /ws/spawn or by the status loop.                                        *)
(***************************************************************************)
SameAgent(b, c) ==
    /\ is_agent_id(b.agent_id)
    /\ is_agent_id(c.agent_id)
    /\ b.agent_id.v = c.agent_id.v

C25_StatesInOrder ==
    \A h \in Conns :
        \A i \in 1..Len(received[h]) : \A j \in 1..Len(received[h]) :
            (i < j /\ SameAgent(received[h][i], received[h][j]))
                => received[h][i].n <= received[h][j].n

(***************************************************************************)
(* C26: the client set of the event bus is exactly the set of websockets   *)
(* whose /ws/poke or /ws/spawn handler is still running, and the two       *)
(* counters are the numbers of running handlers of each kind, never        *)
(* negative.                                                               *)
(***************************************************************************)
Running(kind) == { h \in Conns : Connected(h) /\ conn_kind[h] = kind }

C26_RegistryMatchesHandlers ==
    /\ clients = Running("poke") \cup Running("spawn")
    /\ ws_poke_connections = Cardinality(Running("poke"))
    /\ ws_spawn_connections = Cardinality(Running("spawn"))
    /\ ws_poke_connections >= 0
    /\ ws_spawn_connections >= 0

====
